---- MODULE Spec2Model ----
(***************************************************************************)
(* Lock-free intrusive doubly linked list (include/ut/lock_free_list.h).   *)
(*                                                                         *)
(* A 64-bit link word is represented by the sequence of its four           *)
(* bit-fields, most significant first:                                     *)
(*     << next (30 bits), next_version (2), prev (30 bits), prev_version >>*)
(* which is a bijection with the 64-bit values; NULL_LINK (all ones) is    *)
(* the sequence of the four all-ones fields.  Every atomic load, store and *)
(* compare-exchange of the code is one step of one thread.                 *)
(***************************************************************************)
EXTENDS Integers, Sequences, FiniteSets, TLC

(* ---------------- bounds of the model ---------------- *)
NThreads == 2
MaxInit == 3
MaxOps == 2
(* Node::MAX_RETRIES is 100 in the source; the model runs every retry loop *)
(* with this smaller budget, so that a spinning call stays finite          *)
MAX_RETRIES == 3

Threads == 1..NThreads
NSlots == MaxInit + MaxOps
Slots == 0..(NSlots - 1)

(* ---------------- Node constants ---------------- *)
VERSION_BITS_PER_LINK == 2
TOTAL_VERSION_BITS == VERSION_BITS_PER_LINK * 2
LINK_BITS == (64 - TOTAL_VERSION_BITS) \div 2
VERSION_MASK == (2 ^ VERSION_BITS_PER_LINK) - 1
LINK_MASK == (2 ^ LINK_BITS) - 1
NULL_PTR == (2 ^ LINK_BITS) - 1
DELETING_MARK == NULL_PTR - 1
NULL_LINK == << LINK_MASK, VERSION_MASK, LINK_MASK, VERSION_MASK >>

nullptr == NULL_PTR

(* x & mask for a mask of the form 2^k - 1 *)
BitAnd(x, mask) == x % (mask + 1)

pack_links(next, prev, next_version, prev_version) ==
  << BitAnd(next, LINK_MASK), BitAnd(next_version, VERSION_MASK),
     BitAnd(prev, LINK_MASK), BitAnd(prev_version, VERSION_MASK) >>

unpack_links(links) ==
  [ next |-> BitAnd(links[1], LINK_MASK),
    prev |-> BitAnd(links[3], LINK_MASK),
    next_version |-> BitAnd(links[2], VERSION_MASK),
    prev_version |-> BitAnd(links[4], VERSION_MASK) ]

is_deleting(lp) == lp.next = DELETING_MARK

(* to_node: a link that is a sentinel names no node *)
to_node(link) == IF link = NULL_PTR \/ link = DELETING_MARK THEN nullptr ELSE link

(* ---------------- state ---------------- *)
VARIABLES
  m_links,    \* m_links[s]: the link word of slot s
  m_head,     \* List::m_head
  m_tail,     \* List::m_tail
  m_size,     \* List::m_size (size_t; a negative value v stands for 2^64 + v)
  th,         \* th[t]: position and locals of thread t's running call
  used,       \* slots that were ever handed to an insertion
  inserted,   \* slots whose last insertion returned true
  removed,    \* slots that a remove/pop call returned
  hist,       \* the calls issued so far
  init_len    \* length of the list the run started from

vars == << m_links, m_head, m_tail, m_size, th, used, inserted, removed, hist, init_len >>

Idle ==
  [ pc |-> "idle", op |-> "none", item |-> nullptr, anchor |-> nullptr,
    retries |-> 0, inner_retries |-> 0, pop_retries |-> 0,
    node_links |-> NULL_LINK, nbr_links |-> NULL_LINK, old |-> nullptr,
    \* a traversal: the iterator at work, its locals, the reverse iterator's
    \* base while a copy is decremented, and the operator calls completed
    m_current |-> nullptr, m_prev |-> nullptr, raw_links |-> NULL_LINK, next |-> nullptr,
    base |-> << nullptr, nullptr >>, phase |-> "none", steps |-> 0,
    \* find: the elements whose removal had returned when the call started,
    \* and what the thread's last call returned when that call was find
    gone |-> {}, found |-> nullptr ]

(* The list left by push_back of slots 0..k-1 onto an empty list: each      *)
(* push_back stores (NULL_PTR, old_tail, 0, 0) in the new node and bumps    *)
(* the old tail's next_version.                                             *)
InitLinks(k) ==
  [ s \in Slots |->
      IF s < k
      THEN pack_links(IF s = k - 1 THEN NULL_PTR ELSE s + 1,
                      IF s = 0 THEN NULL_PTR ELSE s - 1,
                      IF s = k - 1 THEN 0 ELSE 1, 0)
      ELSE NULL_LINK ]

Init ==
  \E k \in 0..MaxInit :
    /\ m_links = InitLinks(k)
    /\ m_head = (IF k = 0 THEN NULL_PTR ELSE 0)
    /\ m_tail = (IF k = 0 THEN NULL_PTR ELSE k - 1)
    /\ m_size = k
    /\ th = [ t \in Threads |-> Idle ]
    /\ used = { s \in Slots : s < k }
    /\ inserted = { s \in Slots : s < k }
    /\ removed = {}
    /\ hist = << >>
    /\ init_len = k

(* ---------------- calling and returning ---------------- *)
Quiescent == \A t \in Threads : th[t].pc = "idle"

Fresh == { s \in Slots : s \notin used }
NextFresh == CHOOSE s \in Fresh : \A u \in Fresh : s <= u

(* a call returns: the thread becomes idle and the outcome is recorded *)
ReturnInsert(t, ok) ==
  /\ th' = [ th EXCEPT ![t] = Idle ]
  /\ inserted' = (IF ok /\ th[t].item \notin removed THEN inserted \cup { th[t].item }
                                                   ELSE inserted)
  /\ UNCHANGED << removed, used, hist, init_len >>

ReturnRemove(t, got) ==
  /\ th' = [ th EXCEPT ![t] = Idle ]
  /\ removed' = (IF got THEN removed \cup { th[t].item } ELSE removed)
  /\ inserted' = (IF got THEN inserted \ { th[t].item } ELSE inserted)
  /\ UNCHANGED << used, hist, init_len >>

Goto(t, pc) == [ th EXCEPT ![t].pc = pc ]

Ghost == << used, inserted, removed, hist, init_len >>

Known == inserted \cup removed

(* a call is logged with the threads that were inside a call when it started *)
Log(t, kind, anchor, item) ==
  hist' = Append(hist, [ thread |-> t, kind |-> kind, anchor |-> anchor, item |-> item,
                         busy |-> { u \in Threads : th[u].pc # "idle" } ])

CanCall(t) == th[t].pc = "idle" /\ Len(hist) < MaxOps

(* the caller hands slot item to an insertion *)
CallInsert(t, kind, anchor, item, pc) ==
  /\ th' = [ th EXCEPT ![t] = [ Idle EXCEPT !.pc = pc, !.op = kind,
                                           !.item = item, !.anchor = anchor ] ]
  /\ used' = used \cup { item }
  /\ removed' = removed \ { item }
  /\ UNCHANGED << m_links, m_head, m_tail, m_size, inserted, init_len >>

CallRemove(t, item) ==
  /\ th' = [ th EXCEPT ![t] = [ Idle EXCEPT !.pc = "remove_load", !.op = "remove",
                                           !.item = item ] ]
  /\ UNCHANGED << m_links, m_head, m_tail, m_size, used, inserted, removed, init_len >>

CallPop(t, kind, pc) ==
  /\ th' = [ th EXCEPT ![t] = [ Idle EXCEPT !.pc = pc, !.op = kind ] ]
  /\ UNCHANGED << m_links, m_head, m_tail, m_size, used, inserted, removed, init_len >>

(* concurrent callers: an insertion gets a slot that was never linked       *)
(* before, an anchor or a remove target is a slot whose insertion succeeded *)
call_push_front(t) ==
  /\ CanCall(t) /\ Fresh # {}
  /\ CallInsert(t, "push_front", nullptr, NextFresh, "push_front_load")
  /\ Log(t, "push_front", nullptr, NextFresh)

call_push_back(t) ==
  /\ CanCall(t) /\ Fresh # {}
  /\ CallInsert(t, "push_back", nullptr, NextFresh, "push_back_load")
  /\ Log(t, "push_back", nullptr, NextFresh)

call_insert_after(t) ==
  /\ CanCall(t) /\ Fresh # {}
  /\ \E a \in Known :
       /\ CallInsert(t, "insert_after", a, NextFresh, "insert_after_is_null")
       /\ Log(t, "insert_after", a, NextFresh)

call_insert_before(t) ==
  /\ CanCall(t) /\ Fresh # {}
  /\ \E a \in Known :
       /\ CallInsert(t, "insert_before", a, NextFresh, "insert_before_load")
       /\ Log(t, "insert_before", a, NextFresh)

call_remove(t) ==
  /\ CanCall(t)
  /\ \E s \in Known : CallRemove(t, s) /\ Log(t, "remove", nullptr, s)

call_pop_front(t) ==
  /\ CanCall(t)
  /\ CallPop(t, "pop_front", "pop_front_load")
  /\ Log(t, "pop_front", nullptr, nullptr)

call_pop_back(t) ==
  /\ CanCall(t)
  /\ CallPop(t, "pop_back", "pop_back_load")
  /\ Log(t, "pop_back", nullptr, nullptr)

(* ---------------- List::push_front ---------------- *)
(* loop head: m_head.load, then the relaxed store into the still private node *)
(* push_front whose retry loop does not count its passes *)
push_front_load_uncounted(t) ==
  /\ th[t].pc = "push_front_load"
  /\ IF th[t].retries < MAX_RETRIES
     THEN /\ m_links' = [ m_links EXCEPT ![th[t].item] = pack_links(m_head, NULL_PTR, 0, 0) ]
          /\ th' = [ th EXCEPT ![t].old = m_head, ![t].pc = "push_front_cas" ]
          /\ UNCHANGED Ghost
     ELSE /\ m_links' = [ m_links EXCEPT ![th[t].item] = NULL_LINK ]
          /\ ReturnInsert(t, FALSE)
  /\ UNCHANGED << m_head, m_tail, m_size >>

push_front_load(t) ==
  /\ th[t].pc = "push_front_load"
  /\ IF th[t].retries < MAX_RETRIES
     THEN /\ m_links' = [ m_links EXCEPT ![th[t].item] = pack_links(m_head, NULL_PTR, 0, 0) ]
          /\ th' = [ th EXCEPT ![t].retries = @ + 1, ![t].old = m_head,
                                ![t].pc = "push_front_cas" ]
          /\ UNCHANGED Ghost
     ELSE /\ m_links' = [ m_links EXCEPT ![th[t].item] = NULL_LINK ]
          /\ ReturnInsert(t, FALSE)
  /\ UNCHANGED << m_head, m_tail, m_size >>

(* push_front with a plain store to m_head in place of the CAS *)
push_front_cas_blind(t) ==
  /\ th[t].pc = "push_front_cas"
  /\ m_head' = th[t].item
  /\ th' = Goto(t, IF th[t].old # NULL_PTR THEN "push_front_fix_load"
                                           ELSE "push_front_tail")
  /\ UNCHANGED << m_links, m_tail, m_size, Ghost >>

push_front_cas(t) ==
  /\ th[t].pc = "push_front_cas"
  /\ IF m_head = th[t].old
     THEN /\ m_head' = th[t].item
          /\ th' = Goto(t, IF th[t].old # NULL_PTR THEN "push_front_fix_load"
                                                   ELSE "push_front_tail")
     ELSE /\ th' = Goto(t, "push_front_load")
          /\ UNCHANGED m_head
  /\ UNCHANGED << m_links, m_tail, m_size, Ghost >>

push_front_fix_load(t) ==
  /\ th[t].pc = "push_front_fix_load"
  /\ IF th[t].inner_retries >= MAX_RETRIES
     THEN th' = Goto(t, "push_front_restore")
     ELSE th' = [ th EXCEPT ![t].inner_retries = @ + 1,
                            ![t].nbr_links = m_links[to_node(th[t].old)],
                            ![t].pc = IF m_links[to_node(th[t].old)] = NULL_LINK
                                      THEN "push_front_restore"
                                      ELSE "push_front_fix_cas" ]
  /\ UNCHANGED << m_links, m_head, m_tail, m_size, Ghost >>

push_front_fix_cas(t) ==
  LET old_head == to_node(th[t].old)
      old_head_data == unpack_links(th[t].nbr_links)
  IN /\ th[t].pc = "push_front_fix_cas"
     /\ IF m_links[old_head] = th[t].nbr_links
        THEN /\ m_links' = [ m_links EXCEPT ![old_head] =
                   pack_links(old_head_data.next, th[t].item,
                              old_head_data.next_version,
                              BitAnd(old_head_data.prev_version + 1, VERSION_MASK)) ]
             /\ th' = Goto(t, "push_front_tail")
        ELSE /\ th' = Goto(t, "push_front_fix_load")
             /\ UNCHANGED m_links
     /\ UNCHANGED << m_head, m_tail, m_size, Ghost >>

push_front_restore(t) ==
  /\ th[t].pc = "push_front_restore"
  /\ m_head' = th[t].old
  /\ th' = Goto(t, "push_front_invalidate")
  /\ UNCHANGED << m_links, m_tail, m_size, Ghost >>

push_front_invalidate(t) ==
  /\ th[t].pc = "push_front_invalidate"
  /\ m_links' = [ m_links EXCEPT ![th[t].item] = NULL_LINK ]
  /\ ReturnInsert(t, FALSE)
  /\ UNCHANGED << m_head, m_tail, m_size >>

(* push_front without the tail CAS *)
push_front_tail_skipped(t) ==
  /\ th[t].pc = "push_front_tail"
  /\ th' = Goto(t, "push_front_size")
  /\ UNCHANGED << m_links, m_head, m_tail, m_size, Ghost >>

(* best-effort CAS of m_tail from NULL_PTR to the new node, result ignored *)
push_front_tail(t) ==
  /\ th[t].pc = "push_front_tail"
  /\ m_tail' = (IF m_tail = NULL_PTR THEN th[t].item ELSE m_tail)
  /\ th' = Goto(t, "push_front_size")
  /\ UNCHANGED << m_links, m_head, m_size, Ghost >>

(* m_size.fetch_add(1), return true *)
push_front_size(t) ==
  /\ th[t].pc = "push_front_size"
  /\ m_size' = m_size + 1
  /\ ReturnInsert(t, TRUE)
  /\ UNCHANGED << m_links, m_head, m_tail >>

(* ---------------- List::push_back ---------------- *)
push_back_load(t) ==
  /\ th[t].pc = "push_back_load"
  /\ IF th[t].retries < MAX_RETRIES
     THEN /\ m_links' = [ m_links EXCEPT ![th[t].item] = pack_links(NULL_PTR, m_tail, 0, 0) ]
          /\ th' = [ th EXCEPT ![t].retries = @ + 1, ![t].old = m_tail,
                                ![t].pc = "push_back_cas" ]
          /\ UNCHANGED Ghost
     ELSE /\ m_links' = [ m_links EXCEPT ![th[t].item] = NULL_LINK ]
          /\ ReturnInsert(t, FALSE)
  /\ UNCHANGED << m_head, m_tail, m_size >>

push_back_cas(t) ==
  /\ th[t].pc = "push_back_cas"
  /\ IF m_tail = th[t].old
     THEN /\ m_tail' = th[t].item
          /\ th' = Goto(t, IF th[t].old # NULL_PTR THEN "push_back_fix_load"
                                                   ELSE "push_back_head")
     ELSE /\ th' = Goto(t, "push_back_load")
          /\ UNCHANGED m_tail
  /\ UNCHANGED << m_links, m_head, m_size, Ghost >>

push_back_fix_load(t) ==
  /\ th[t].pc = "push_back_fix_load"
  /\ IF th[t].inner_retries >= MAX_RETRIES
     THEN th' = Goto(t, "push_back_restore")
     ELSE th' = [ th EXCEPT ![t].inner_retries = @ + 1,
                            ![t].nbr_links = m_links[to_node(th[t].old)],
                            ![t].pc = IF m_links[to_node(th[t].old)] = NULL_LINK
                                      THEN "push_back_restore"
                                      ELSE "push_back_fix_cas" ]
  /\ UNCHANGED << m_links, m_head, m_tail, m_size, Ghost >>

(* push_back whose fix of the old tail sets prev, as push_front's does *)
push_back_fix_cas_as_front(t) ==
  LET old_tail == to_node(th[t].old)
      old_tail_data == unpack_links(th[t].nbr_links)
  IN /\ th[t].pc = "push_back_fix_cas"
     /\ IF m_links[old_tail] = th[t].nbr_links
        THEN /\ m_links' = [ m_links EXCEPT ![old_tail] =
                   pack_links(old_tail_data.next, th[t].item,
                              old_tail_data.next_version,
                              BitAnd(old_tail_data.prev_version + 1, VERSION_MASK)) ]
             /\ th' = Goto(t, "push_back_head")
        ELSE /\ th' = Goto(t, "push_back_fix_load")
             /\ UNCHANGED m_links
     /\ UNCHANGED << m_head, m_tail, m_size, Ghost >>

push_back_fix_cas(t) ==
  LET old_tail == to_node(th[t].old)
      old_tail_data == unpack_links(th[t].nbr_links)
  IN /\ th[t].pc = "push_back_fix_cas"
     /\ IF m_links[old_tail] = th[t].nbr_links
        THEN /\ m_links' = [ m_links EXCEPT ![old_tail] =
                   pack_links(th[t].item, old_tail_data.prev,
                              BitAnd(old_tail_data.next_version + 1, VERSION_MASK),
                              old_tail_data.prev_version) ]
             /\ th' = Goto(t, "push_back_head")
        ELSE /\ th' = Goto(t, "push_back_fix_load")
             /\ UNCHANGED m_links
     /\ UNCHANGED << m_head, m_tail, m_size, Ghost >>

push_back_restore(t) ==
  /\ th[t].pc = "push_back_restore"
  /\ m_tail' = th[t].old
  /\ th' = Goto(t, "push_back_invalidate")
  /\ UNCHANGED << m_links, m_head, m_size, Ghost >>

push_back_invalidate(t) ==
  /\ th[t].pc = "push_back_invalidate"
  /\ m_links' = [ m_links EXCEPT ![th[t].item] = NULL_LINK ]
  /\ ReturnInsert(t, FALSE)
  /\ UNCHANGED << m_head, m_tail, m_size >>

(* best-effort CAS of m_head from NULL_PTR to the new node, result ignored *)
push_back_head(t) ==
  /\ th[t].pc = "push_back_head"
  /\ m_head' = (IF m_head = NULL_PTR THEN th[t].item ELSE m_head)
  /\ th' = Goto(t, "push_back_size")
  /\ UNCHANGED << m_links, m_tail, m_size, Ghost >>

(* m_size.fetch_add(1), return true *)
push_back_size(t) ==
  /\ th[t].pc = "push_back_size"
  /\ m_size' = m_size + 1
  /\ ReturnInsert(t, TRUE)
  /\ UNCHANGED << m_links, m_head, m_tail >>


(* ---------------- List::remove ---------------- *)
(* remove returns to its caller: the user, or the retry loop of a pop *)
RemoveReturn(t, got) ==
  IF th[t].op = "remove" \/ got
  THEN ReturnRemove(t, got)
  ELSE /\ th' = [ th EXCEPT ![t] = [ Idle EXCEPT !.op = th[t].op,
                        !.pop_retries = th[t].pop_retries,
                        !.pc = IF th[t].op = "pop_front" THEN "pop_front_load"
                                                         ELSE "pop_back_load" ] ]
       /\ UNCHANGED Ghost

(* the steps of remove that follow the commit, in program order; a step     *)
(* whose condition is false is skipped                                      *)
AfterPrevFix(lp) ==
  IF to_node(lp.next) # nullptr THEN "remove_next_load" ELSE "remove_finalize"
AfterTailFix(lp) ==
  IF to_node(lp.prev) # nullptr THEN "remove_prev_load" ELSE AfterPrevFix(lp)
AfterHeadFix(lp) ==
  IF lp.next = NULL_PTR THEN "remove_tail" ELSE AfterTailFix(lp)
AfterCommit(lp) ==
  IF lp.prev = NULL_PTR THEN "remove_head" ELSE AfterHeadFix(lp)

(* remove without the test for an already removed node *)
remove_load_unchecked(t) ==
  /\ th[t].pc = "remove_load"
  /\ IF th[t].retries >= MAX_RETRIES
     THEN RemoveReturn(t, FALSE)
     ELSE LET node_links == m_links[th[t].item]
          IN IF is_deleting(unpack_links(node_links))
             THEN RemoveReturn(t, FALSE)
             ELSE /\ th' = [ th EXCEPT ![t].retries = @ + 1,
                                       ![t].node_links = node_links,
                                       ![t].pc = "remove_cas" ]
                  /\ UNCHANGED Ghost
  /\ UNCHANGED << m_links, m_head, m_tail, m_size >>

remove_load(t) ==
  /\ th[t].pc = "remove_load"
  /\ IF th[t].retries >= MAX_RETRIES
     THEN RemoveReturn(t, FALSE)
     ELSE LET node_links == m_links[th[t].item]
          IN IF node_links = NULL_LINK \/ is_deleting(unpack_links(node_links))
             THEN RemoveReturn(t, FALSE)
             ELSE /\ th' = [ th EXCEPT ![t].retries = @ + 1,
                                       ![t].node_links = node_links,
                                       ![t].pc = "remove_cas" ]
                  /\ UNCHANGED Ghost
  /\ UNCHANGED << m_links, m_head, m_tail, m_size >>

(* the commit CAS that goes on to the head fix without m_size.fetch_sub *)
remove_cas_uncounted(t) ==
  LET link_data == unpack_links(th[t].node_links)
  IN /\ th[t].pc = "remove_cas"
     /\ IF m_links[th[t].item] = th[t].node_links
        THEN /\ m_links' = [ m_links EXCEPT ![th[t].item] =
                   pack_links(DELETING_MARK, link_data.prev,
                              BitAnd(link_data.next_version + 1, VERSION_MASK),
                              link_data.prev_version) ]
             /\ th' = [ th EXCEPT ![t].inner_retries = 0, ![t].pc = AfterCommit(link_data) ]
             /\ UNCHANGED m_size
        ELSE /\ th' = Goto(t, "remove_load")
             /\ UNCHANGED << m_links, m_size >>
     /\ UNCHANGED << m_head, m_tail, Ghost >>

(* the commit CAS that installs the tombstone *)
remove_cas(t) ==
  LET link_data == unpack_links(th[t].node_links)
  IN /\ th[t].pc = "remove_cas"
     /\ IF m_links[th[t].item] = th[t].node_links
        THEN /\ m_links' = [ m_links EXCEPT ![th[t].item] =
                   pack_links(DELETING_MARK, link_data.prev,
                              BitAnd(link_data.next_version + 1, VERSION_MASK),
                              link_data.prev_version) ]
             /\ th' = Goto(t, "remove_size")
        ELSE /\ th' = Goto(t, "remove_load")
             /\ UNCHANGED m_links
     /\ UNCHANGED << m_head, m_tail, m_size, Ghost >>

(* m_size.fetch_sub(1) right after the commit, before the head fix *)
remove_size(t) ==
  /\ th[t].pc = "remove_size"
  /\ m_size' = m_size - 1
  /\ th' = [ th EXCEPT ![t].inner_retries = 0,
                       ![t].pc = AfterCommit(unpack_links(th[t].node_links)) ]
  /\ UNCHANGED << m_links, m_head, m_tail, Ghost >>

(* remove without the head CAS *)
remove_head_skipped(t) ==
  LET link_data == unpack_links(th[t].node_links)
  IN /\ th[t].pc = "remove_head"
     /\ th' = Goto(t, AfterHeadFix(link_data))
     /\ UNCHANGED << m_links, m_head, m_tail, m_size, Ghost >>

remove_head(t) ==
  LET link_data == unpack_links(th[t].node_links)
  IN /\ th[t].pc = "remove_head"
     /\ m_head' = (IF m_head = th[t].item THEN link_data.next ELSE m_head)
     /\ th' = Goto(t, AfterHeadFix(link_data))
     /\ UNCHANGED << m_links, m_tail, m_size, Ghost >>

(* remove without the tail CAS *)
remove_tail_skipped(t) ==
  LET link_data == unpack_links(th[t].node_links)
  IN /\ th[t].pc = "remove_tail"
     /\ th' = Goto(t, AfterTailFix(link_data))
     /\ UNCHANGED << m_links, m_head, m_tail, m_size, Ghost >>

remove_tail(t) ==
  LET link_data == unpack_links(th[t].node_links)
  IN /\ th[t].pc = "remove_tail"
     /\ m_tail' = (IF m_tail = th[t].item THEN link_data.prev ELSE m_tail)
     /\ th' = Goto(t, AfterTailFix(link_data))
     /\ UNCHANGED << m_links, m_head, m_size, Ghost >>

remove_prev_load(t) ==
  LET link_data == unpack_links(th[t].node_links)
      prev_links == m_links[to_node(link_data.prev)]
      prev_link_data == unpack_links(prev_links)
      done == [ th EXCEPT ![t].inner_retries = 0, ![t].pc = AfterPrevFix(link_data) ]
  IN /\ th[t].pc = "remove_prev_load"
     /\ th' = IF th[t].inner_retries >= MAX_RETRIES THEN done
              ELSE IF prev_links = NULL_LINK \/ is_deleting(prev_link_data) THEN done
              ELSE IF prev_link_data.next # th[t].item THEN done
              ELSE [ th EXCEPT ![t].inner_retries = @ + 1, ![t].nbr_links = prev_links,
                               ![t].pc = "remove_prev_cas" ]
     /\ UNCHANGED << m_links, m_head, m_tail, m_size, Ghost >>

remove_prev_cas(t) ==
  LET link_data == unpack_links(th[t].node_links)
      prev_node == to_node(link_data.prev)
      prev_link_data == unpack_links(th[t].nbr_links)
  IN /\ th[t].pc = "remove_prev_cas"
     /\ IF m_links[prev_node] = th[t].nbr_links
        THEN /\ m_links' = [ m_links EXCEPT ![prev_node] =
                   pack_links(link_data.next, prev_link_data.prev,
                              BitAnd(prev_link_data.next_version + 1, VERSION_MASK),
                              prev_link_data.prev_version) ]
             /\ th' = [ th EXCEPT ![t].inner_retries = 0, ![t].pc = AfterPrevFix(link_data) ]
        ELSE /\ th' = Goto(t, "remove_prev_load")
             /\ UNCHANGED m_links
     /\ UNCHANGED << m_head, m_tail, m_size, Ghost >>

remove_next_load(t) ==
  LET link_data == unpack_links(th[t].node_links)
      next_links == m_links[to_node(link_data.next)]
      next_link_data == unpack_links(next_links)
      done == [ th EXCEPT ![t].inner_retries = 0, ![t].pc = "remove_finalize" ]
  IN /\ th[t].pc = "remove_next_load"
     /\ th' = IF th[t].inner_retries >= MAX_RETRIES THEN done
              ELSE IF next_links = NULL_LINK \/ is_deleting(next_link_data) THEN done
              ELSE IF next_link_data.prev # th[t].item THEN done
              ELSE [ th EXCEPT ![t].inner_retries = @ + 1, ![t].nbr_links = next_links,
                               ![t].pc = "remove_next_cas" ]
     /\ UNCHANGED << m_links, m_head, m_tail, m_size, Ghost >>

remove_next_cas(t) ==
  LET link_data == unpack_links(th[t].node_links)
      next_node == to_node(link_data.next)
      next_link_data == unpack_links(th[t].nbr_links)
  IN /\ th[t].pc = "remove_next_cas"
     /\ IF m_links[next_node] = th[t].nbr_links
        THEN /\ m_links' = [ m_links EXCEPT ![next_node] =
                   pack_links(next_link_data.next, link_data.prev,
                              next_link_data.next_version,
                              BitAnd(next_link_data.prev_version + 1, VERSION_MASK)) ]
             /\ th' = [ th EXCEPT ![t].inner_retries = 0, ![t].pc = "remove_finalize" ]
        ELSE /\ th' = Goto(t, "remove_next_load")
             /\ UNCHANGED m_links
     /\ UNCHANGED << m_head, m_tail, m_size, Ghost >>

remove_finalize(t) ==
  /\ th[t].pc = "remove_finalize"
  /\ m_links' = [ m_links EXCEPT ![th[t].item] = NULL_LINK ]
  /\ RemoveReturn(t, TRUE)
  /\ UNCHANGED << m_head, m_tail, m_size >>

(* ---------------- List::pop_front / List::pop_back ---------------- *)
PopLoad(t, link) ==
  IF th[t].pop_retries >= MAX_RETRIES \/ link = NULL_PTR
  THEN ReturnRemove(t, FALSE)
  ELSE /\ th' = [ th EXCEPT ![t].pop_retries = @ + 1, ![t].item = link,
                            ![t].retries = 0, ![t].pc = "remove_load" ]
       /\ UNCHANGED Ghost

pop_front_load(t) ==
  /\ th[t].pc = "pop_front_load"
  /\ PopLoad(t, m_head)
  /\ UNCHANGED << m_links, m_head, m_tail, m_size >>

pop_back_load(t) ==
  /\ th[t].pc = "pop_back_load"
  /\ PopLoad(t, m_tail)
  /\ UNCHANGED << m_links, m_head, m_tail, m_size >>

(* ---------------- List::find ---------------- *)
(* find(predicate) with the predicate "the item is the one in slot anchor"; *)
(* anchor = nullptr is a predicate no item satisfies. old holds current.    *)
ReturnFind(t, found) ==
  /\ th' = [ th EXCEPT ![t] = [ Idle EXCEPT !.found = found ] ]
  /\ UNCHANGED Ghost

call_find(t) ==
  /\ CanCall(t)
  /\ \E p \in Known \cup { nullptr } :
       /\ th' = [ th EXCEPT ![t] = [ Idle EXCEPT !.pc = "find_head_load", !.op = "find",
                                                !.anchor = p, !.gone = removed ] ]
       /\ Log(t, "find", p, nullptr)
  /\ UNCHANGED << m_links, m_head, m_tail, m_size, used, inserted, removed, init_len >>

(* current = m_head.load *)
find_head_load(t) ==
  /\ th[t].pc = "find_head_load"
  /\ th' = [ th EXCEPT ![t].old = m_head, ![t].pc = "find_loop" ]
  /\ UNCHANGED << m_links, m_head, m_tail, m_size, Ghost >>

(* the loop test, then node->m_links.load and what follows from it *)
find_loop(t) ==
  LET current == th[t].old
      links == m_links[to_node(current)]
      link_data == unpack_links(links)
  IN /\ th[t].pc = "find_loop"
     /\ IF current = NULL_PTR \/ current = DELETING_MARK
        THEN ReturnFind(t, nullptr)
        ELSE IF th[t].retries >= MAX_RETRIES
        THEN ReturnFind(t, nullptr)
        ELSE IF links = NULL_LINK \/ is_deleting(link_data)
        THEN /\ th' = [ th EXCEPT ![t].retries = @ + 1, ![t].pc = "find_recover" ]
             /\ UNCHANGED Ghost
        ELSE IF to_node(current) = th[t].anchor
        THEN ReturnFind(t, to_node(current))
        ELSE /\ th' = [ th EXCEPT ![t].retries = @ + 1, ![t].old = link_data.next ]
             /\ UNCHANGED Ghost
     /\ UNCHANGED << m_links, m_head, m_tail, m_size >>

(* find that finalizes the removed node it met before it starts over *)
find_recover_helping(t) ==
  /\ th[t].pc = "find_recover"
  /\ th' = [ th EXCEPT ![t].old = m_head, ![t].retries = @ + 1, ![t].pc = "find_loop" ]
  /\ m_links' = [ m_links EXCEPT ![to_node(th[t].old)] = NULL_LINK ]
  /\ UNCHANGED << m_head, m_tail, m_size, Ghost >>

(* the node was removed or is being deleted: start over from m_head *)
find_recover(t) ==
  /\ th[t].pc = "find_recover"
  /\ th' = [ th EXCEPT ![t].old = m_head, ![t].retries = @ + 1, ![t].pc = "find_loop" ]
  /\ UNCHANGED << m_links, m_head, m_tail, m_size, Ghost >>


(* ---------------- List::insert_after ---------------- *)

(* node.is_null(): return false without touching new_node *)
insert_after_is_null(t) ==
  /\ th[t].pc = "insert_after_is_null"
  /\ IF m_links[th[t].anchor] = NULL_LINK
     THEN ReturnInsert(t, FALSE)
     ELSE th' = Goto(t, "insert_after_load") /\ UNCHANGED Ghost
  /\ UNCHANGED << m_links, m_head, m_tail, m_size >>

insert_after_load(t) ==
  LET node_links == m_links[th[t].anchor]
  IN /\ th[t].pc = "insert_after_load"
     /\ th' = IF th[t].retries >= MAX_RETRIES
              THEN Goto(t, "insert_after_invalidate")
              ELSE [ th EXCEPT ![t].retries = @ + 1, ![t].node_links = node_links,
                               ![t].pc = IF node_links = NULL_LINK
                                            \/ is_deleting(unpack_links(node_links))
                                         THEN "insert_after_invalidate"
                                         ELSE "insert_after_store" ]
     /\ UNCHANGED << m_links, m_head, m_tail, m_size, Ghost >>

(* new_node.invalidate(); return false *)
insert_after_invalidate(t) ==
  /\ th[t].pc = "insert_after_invalidate"
  /\ m_links' = [ m_links EXCEPT ![th[t].item] = NULL_LINK ]
  /\ ReturnInsert(t, FALSE)
  /\ UNCHANGED << m_head, m_tail, m_size >>

insert_after_store(t) ==
  LET link_data == unpack_links(th[t].node_links)
  IN /\ th[t].pc = "insert_after_store"
     /\ m_links' = [ m_links EXCEPT ![th[t].item] = pack_links(link_data.next, th[t].anchor, 0, 0) ]
     /\ th' = Goto(t, "insert_after_cas")
     /\ UNCHANGED << m_head, m_tail, m_size, Ghost >>

insert_after_cas(t) ==
  LET link_data == unpack_links(th[t].node_links)
  IN /\ th[t].pc = "insert_after_cas"
     /\ IF m_links[th[t].anchor] = th[t].node_links
        THEN /\ m_links' = [ m_links EXCEPT ![th[t].anchor] = 
                   pack_links(th[t].item, link_data.prev,
                              BitAnd(link_data.next_version + 1, VERSION_MASK),
                              link_data.prev_version) ]
             /\ th' = [ th EXCEPT ![t].inner_retries = 0,
                                  ![t].pc = IF link_data.next # NULL_PTR
                                            THEN "insert_after_fix_load"
                                            ELSE "insert_after_tail" ]
        ELSE /\ th' = Goto(t, "insert_after_load")
             /\ UNCHANGED m_links
     /\ UNCHANGED << m_head, m_tail, m_size, Ghost >>

insert_after_fix_load(t) ==
  LET link_data == unpack_links(th[t].node_links)
      next_links == m_links[to_node(link_data.next)]
      next_link_data == unpack_links(next_links)
  IN /\ th[t].pc = "insert_after_fix_load"
     /\ th' = IF th[t].inner_retries >= MAX_RETRIES
              THEN Goto(t, "insert_after_restore_fail")
              ELSE [ th EXCEPT ![t].inner_retries = @ + 1, ![t].nbr_links = next_links,
                        ![t].pc = IF next_links = NULL_LINK \/ is_deleting(next_link_data)
                                  THEN "insert_after_restore"
                                  ELSE IF next_link_data.prev # th[t].anchor
                                  THEN "insert_after_restore"
                                  ELSE "insert_after_fix_cas" ]
     /\ UNCHANGED << m_links, m_head, m_tail, m_size, Ghost >>

(* node.m_links.store(node_links): the anchor gets the word read at the     *)
(* loop head back, then the outer loop is retried or the call gives up      *)
insert_after_restore(t) ==
  /\ th[t].pc \in { "insert_after_restore", "insert_after_restore_fail" }
  /\ m_links' = [ m_links EXCEPT ![th[t].anchor] = th[t].node_links ]
  /\ th' = Goto(t, IF th[t].pc = "insert_after_restore" THEN "insert_after_load"
                                                      ELSE "insert_after_invalidate")
  /\ UNCHANGED << m_head, m_tail, m_size, Ghost >>

insert_after_fix_cas(t) ==
  LET link_data == unpack_links(th[t].node_links)
      next_node == to_node(link_data.next)
      next_link_data == unpack_links(th[t].nbr_links)
  IN /\ th[t].pc = "insert_after_fix_cas"
     /\ IF m_links[next_node] = th[t].nbr_links
        THEN /\ m_links' = [ m_links EXCEPT ![next_node] = 
                   pack_links(next_link_data.next, th[t].item,
                              next_link_data.next_version,
                              BitAnd(next_link_data.prev_version + 1, VERSION_MASK)) ]
             /\ th' = Goto(t, "insert_after_size")
        ELSE /\ th' = Goto(t, "insert_after_fix_load")
             /\ UNCHANGED m_links
     /\ UNCHANGED << m_head, m_tail, m_size, Ghost >>

(* the anchor was at the edge: CAS of m_tail, result ignored *)
insert_after_tail(t) ==
  /\ th[t].pc = "insert_after_tail"
  /\ m_tail' = (IF m_tail = th[t].anchor THEN th[t].item ELSE m_tail)
  /\ th' = Goto(t, "insert_after_size")
  /\ UNCHANGED << m_links, m_head, m_size, Ghost >>

(* m_size.fetch_add(1), return true *)
insert_after_size(t) ==
  /\ th[t].pc = "insert_after_size"
  /\ m_size' = m_size + 1
  /\ ReturnInsert(t, TRUE)
  /\ UNCHANGED << m_links, m_head, m_tail >>

(* ---------------- List::insert_before ---------------- *)

(* insert_before without the test for a tombstoned anchor *)
insert_before_load_unmarked(t) ==
  LET node_links == m_links[th[t].anchor]
  IN /\ th[t].pc = "insert_before_load"
     /\ th' = IF th[t].retries >= MAX_RETRIES
              THEN Goto(t, "insert_before_invalidate")
              ELSE [ th EXCEPT ![t].retries = @ + 1, ![t].node_links = node_links,
                               ![t].pc = IF node_links = NULL_LINK
                                         THEN "insert_before_invalidate"
                                         ELSE "insert_before_store" ]
     /\ UNCHANGED << m_links, m_head, m_tail, m_size, Ghost >>

insert_before_load(t) ==
  LET node_links == m_links[th[t].anchor]
  IN /\ th[t].pc = "insert_before_load"
     /\ th' = IF th[t].retries >= MAX_RETRIES
              THEN Goto(t, "insert_before_invalidate")
              ELSE [ th EXCEPT ![t].retries = @ + 1, ![t].node_links = node_links,
                               ![t].pc = IF node_links = NULL_LINK
                                            \/ is_deleting(unpack_links(node_links))
                                         THEN "insert_before_invalidate"
                                         ELSE "insert_before_store" ]
     /\ UNCHANGED << m_links, m_head, m_tail, m_size, Ghost >>

(* new_node.invalidate(); return false *)
insert_before_invalidate(t) ==
  /\ th[t].pc = "insert_before_invalidate"
  /\ m_links' = [ m_links EXCEPT ![th[t].item] = NULL_LINK ]
  /\ ReturnInsert(t, FALSE)
  /\ UNCHANGED << m_head, m_tail, m_size >>

insert_before_store(t) ==
  LET link_data == unpack_links(th[t].node_links)
  IN /\ th[t].pc = "insert_before_store"
     /\ m_links' = [ m_links EXCEPT ![th[t].item] = pack_links(th[t].anchor, link_data.prev, 0, 0) ]
     /\ th' = Goto(t, "insert_before_cas")
     /\ UNCHANGED << m_head, m_tail, m_size, Ghost >>

insert_before_cas(t) ==
  LET link_data == unpack_links(th[t].node_links)
  IN /\ th[t].pc = "insert_before_cas"
     /\ IF m_links[th[t].anchor] = th[t].node_links
        THEN /\ m_links' = [ m_links EXCEPT ![th[t].anchor] = 
                   pack_links(link_data.next, th[t].item,
                              link_data.next_version,
                              BitAnd(link_data.prev_version + 1, VERSION_MASK)) ]
             /\ th' = [ th EXCEPT ![t].inner_retries = 0,
                                  ![t].pc = IF link_data.prev # NULL_PTR
                                            THEN "insert_before_fix_load"
                                            ELSE "insert_before_head" ]
        ELSE /\ th' = Goto(t, "insert_before_load")
             /\ UNCHANGED m_links
     /\ UNCHANGED << m_head, m_tail, m_size, Ghost >>

insert_before_fix_load(t) ==
  LET link_data == unpack_links(th[t].node_links)
      prev_links == m_links[to_node(link_data.prev)]
      prev_link_data == unpack_links(prev_links)
  IN /\ th[t].pc = "insert_before_fix_load"
     /\ th' = IF th[t].inner_retries >= MAX_RETRIES
              THEN Goto(t, "insert_before_restore_fail")
              ELSE [ th EXCEPT ![t].inner_retries = @ + 1, ![t].nbr_links = prev_links,
                        ![t].pc = IF prev_links = NULL_LINK \/ is_deleting(prev_link_data)
                                  THEN "insert_before_restore"
                                  ELSE IF prev_link_data.next # th[t].anchor
                                  THEN "insert_before_restore"
                                  ELSE "insert_before_fix_cas" ]
     /\ UNCHANGED << m_links, m_head, m_tail, m_size, Ghost >>

(* node.m_links.store(node_links): the anchor gets the word read at the     *)
(* loop head back, then the outer loop is retried or the call gives up      *)
insert_before_restore(t) ==
  /\ th[t].pc \in { "insert_before_restore", "insert_before_restore_fail" }
  /\ m_links' = [ m_links EXCEPT ![th[t].anchor] = th[t].node_links ]
  /\ th' = Goto(t, IF th[t].pc = "insert_before_restore" THEN "insert_before_load"
                                                      ELSE "insert_before_invalidate")
  /\ UNCHANGED << m_head, m_tail, m_size, Ghost >>

insert_before_fix_cas(t) ==
  LET link_data == unpack_links(th[t].node_links)
      prev_node == to_node(link_data.prev)
      prev_link_data == unpack_links(th[t].nbr_links)
  IN /\ th[t].pc = "insert_before_fix_cas"
     /\ IF m_links[prev_node] = th[t].nbr_links
        THEN /\ m_links' = [ m_links EXCEPT ![prev_node] = 
                   pack_links(th[t].item, prev_link_data.prev,
                              BitAnd(prev_link_data.next_version + 1, VERSION_MASK),
                              prev_link_data.prev_version) ]
             /\ th' = Goto(t, "insert_before_size")
        ELSE /\ th' = Goto(t, "insert_before_fix_load")
             /\ UNCHANGED m_links
     /\ UNCHANGED << m_head, m_tail, m_size, Ghost >>

(* the anchor was at the edge: CAS of m_head, result ignored *)
insert_before_head(t) ==
  /\ th[t].pc = "insert_before_head"
  /\ m_head' = (IF m_head = th[t].anchor THEN th[t].item ELSE m_head)
  /\ th' = Goto(t, "insert_before_size")
  /\ UNCHANGED << m_links, m_tail, m_size, Ghost >>

(* m_size.fetch_add(1), return true *)
insert_before_size(t) ==
  /\ th[t].pc = "insert_before_size"
  /\ m_size' = m_size + 1
  /\ ReturnInsert(t, TRUE)
  /\ UNCHANGED << m_links, m_head, m_tail >>

(* ---------------- List_iterator ---------------- *)
(* an iterator is (m_current, m_prev); thrown records Iterator_invalidated *)
Iter(current, prev) == [ m_current |-> current, m_prev |-> prev, thrown |-> FALSE ]

begin == IF m_head # NULL_PTR THEN Iter(to_node(m_head), nullptr)
         ELSE Iter(nullptr, IF m_tail # NULL_PTR THEN to_node(m_tail) ELSE nullptr)

end == Iter(nullptr, IF m_tail # NULL_PTR THEN to_node(m_tail) ELSE nullptr)

(* a reverse iterator is given by its base: rbegin() wraps end(), rend()   *)
(* wraps begin()                                                           *)
rbegin == end
rend == begin

(* List_iterator::operator==, which is also what two reverse iterators are *)
(* compared with, on their bases                                           *)
List_iterator_eq(a, b) == a.m_current = b.m_current

(* the drift-repair loop of operator++; its result is the iterator, the   *)
(* retry count and whether the loop body returned from operator++         *)
RECURSIVE IncRepair(_, _, _, _)
IncRepair(current, prev, current_links, retries) ==
  IF current # nullptr /\ to_node(current_links.prev) # prev
  THEN IF retries < MAX_RETRIES
       THEN LET c == to_node(current_links.next)
            IN IF c # nullptr
               THEN IF m_links[c] = NULL_LINK
                    THEN [ m_current |-> nullptr, m_prev |-> c,
                           retries |-> retries + 1, returned |-> TRUE ]
                    ELSE IncRepair(c, to_node(unpack_links(m_links[c]).prev),
                                   unpack_links(m_links[c]), retries + 1)
               ELSE IncRepair(c, prev, current_links, retries + 1)
       ELSE [ m_current |-> current, m_prev |-> prev,
              retries |-> retries + 1, returned |-> FALSE ]
  ELSE [ m_current |-> current, m_prev |-> prev,
         retries |-> retries, returned |-> FALSE ]

(* List_iterator::operator++ *)
Inc(it) ==
  IF it.m_current = nullptr THEN it
  ELSE LET raw_links == m_links[it.m_current]
           current_links == unpack_links(raw_links)
           next == to_node(current_links.next)
       IN IF raw_links = NULL_LINK
          THEN Iter(nullptr, it.m_current)
          ELSE IF to_node(current_links.prev) # it.m_prev
          THEN LET r == IncRepair(it.m_current, it.m_prev, current_links, 0)
               IN IF r.returned THEN Iter(r.m_current, r.m_prev)
                  ELSE IF r.retries >= MAX_RETRIES
                  THEN [ m_current |-> r.m_current, m_prev |-> r.m_prev, thrown |-> TRUE ]
                  ELSE Iter(next, r.m_current)
          ELSE Iter(next, it.m_current)

(* the loop of operator-- that walks over tombstoned predecessors *)
RECURSIVE DecSkip(_, _, _)
DecSkip(prev, prev_links, retries) ==
  IF is_deleting(prev_links) /\ prev # nullptr
  THEN IF retries < MAX_RETRIES
       THEN LET p == to_node(prev_links.prev)
            IN IF p = nullptr
               THEN [ m_prev |-> p, prev_links |-> prev_links,
                      retries |-> retries + 1, returned |-> TRUE ]
               ELSE IF m_links[p] = NULL_LINK
               THEN [ m_prev |-> nullptr, prev_links |-> prev_links,
                      retries |-> retries + 1, returned |-> TRUE ]
               ELSE DecSkip(p, unpack_links(m_links[p]), retries + 1)
       ELSE [ m_prev |-> prev, prev_links |-> prev_links,
              retries |-> retries + 1, returned |-> FALSE ]
  ELSE [ m_prev |-> prev, prev_links |-> prev_links,
         retries |-> retries, returned |-> FALSE ]

(* List_iterator::operator-- *)
Dec(it) ==
  IF it.m_prev = nullptr THEN it
  ELSE LET raw_links == m_links[it.m_prev]
       IN IF raw_links = NULL_LINK
          THEN Iter(it.m_current, nullptr)
          ELSE LET r == DecSkip(it.m_prev, unpack_links(raw_links), 0)
                   prev == to_node(r.prev_links.prev)
               IN IF r.returned THEN Iter(it.m_current, r.m_prev)
                  ELSE IF r.retries >= MAX_RETRIES
                  THEN [ m_current |-> it.m_current, m_prev |-> r.m_prev, thrown |-> TRUE ]
                  ELSE IF prev = r.m_prev THEN Iter(it.m_current, nullptr)
                  ELSE Iter(r.m_prev, prev)

(* ---------------- traversals of a quiescent list ---------------- *)
(* an iterator has at most (NSlots + 1)^2 values: a walk that takes more   *)
(* steps repeats one and never ends                                        *)
Fuel == (NSlots + 1) * (NSlots + 1) + 1

(* the range-for loop: from begin(), ++ until the iterator equals end() *)
RECURSIVE ForwardWalk(_, _)
ForwardWalk(it, fuel) ==
  IF it.m_current = end.m_current THEN [ seq |-> << >>, status |-> "ok" ]
  ELSE IF fuel = 0 THEN [ seq |-> << >>, status |-> "endless" ]
  ELSE LET nx == Inc(it)
       IN IF nx.thrown THEN [ seq |-> << it.m_current >>, status |-> "thrown" ]
          ELSE LET rest == ForwardWalk(nx, fuel - 1)
               IN [ seq |-> << it.m_current >> \o rest.seq, status |-> rest.status ]

(* the reverse loop: from rbegin() until the iterator equals rend(); the   *)
(* reverse iterator dereferences a decremented copy of its base and its   *)
(* ++ is -- on the base                                                    *)
RECURSIVE ReverseWalk(_, _)
ReverseWalk(base, fuel) ==
  IF base.m_current = begin.m_current THEN [ seq |-> << >>, status |-> "ok" ]
  ELSE IF fuel = 0 THEN [ seq |-> << >>, status |-> "endless" ]
  ELSE LET d == Dec(base)
       IN IF d.thrown THEN [ seq |-> << >>, status |-> "thrown" ]
          ELSE IF d.m_current = nullptr THEN [ seq |-> << >>, status |-> "null_deref" ]
          ELSE LET rest == ReverseWalk(d, fuel - 1)
               IN [ seq |-> << d.m_current >> \o rest.seq, status |-> rest.status ]

Forward == ForwardWalk(begin, Fuel)
Reverse == ReverseWalk(end, Fuel)

Rev(q) == [ i \in 1..Len(q) |-> q[Len(q) + 1 - i] ]
Range(q) == { q[i] : i \in 1..Len(q) }

(* List::size(): the size_t value of m_size *)
size == m_size

(* ---------------- the two chains of a quiescent list ---------------- *)
next_of(s) == unpack_links(m_links[s]).next
prev_of(s) == unpack_links(m_links[s]).prev

(* the nodes met from m_head along next, and from m_tail along prev; the   *)
(* walk stops at a sentinel and at a node it has already met               *)
RECURSIVE Chain(_, _, _)
Chain(link, forward, seen) ==
  IF to_node(link) = nullptr \/ link \in Range(seen) THEN seen
  ELSE Chain(IF forward THEN next_of(link) ELSE prev_of(link), forward, Append(seen, link))

NextChain == Chain(m_head, TRUE, << >>)
PrevChain == Chain(m_tail, FALSE, << >>)

(* a chain is cyclic when the walk stopped at a node it had already met *)
Last(q) == q[Len(q)]
NextCycle == NextChain # << >> /\ to_node(next_of(Last(NextChain))) # nullptr
PrevCycle == PrevChain # << >> /\ to_node(prev_of(Last(PrevChain))) # nullptr

(* live: reachable from head by following next *)
Live == Range(NextChain)

(* ---------------- the specification ---------------- *)
Step(t) ==
  \/ call_push_front(t) \/ call_push_back(t)
  \/ call_insert_after(t) \/ call_insert_before(t)
  \/ call_remove(t) \/ call_pop_front(t) \/ call_pop_back(t)
  \/ push_front_load(t) \/ push_front_cas(t) \/ push_front_fix_load(t)
  \/ push_front_fix_cas(t) \/ push_front_restore(t) \/ push_front_invalidate(t)
  \/ push_front_tail(t) \/ push_front_size(t)
  \/ push_back_load(t) \/ push_back_cas(t) \/ push_back_fix_load(t)
  \/ push_back_fix_cas(t) \/ push_back_restore(t) \/ push_back_invalidate(t)
  \/ push_back_head(t) \/ push_back_size(t)
  \/ insert_after_is_null(t) \/ insert_after_load(t) \/ insert_after_invalidate(t)
  \/ insert_after_store(t) \/ insert_after_cas(t) \/ insert_after_fix_load(t)
  \/ insert_after_restore(t) \/ insert_after_fix_cas(t) \/ insert_after_tail(t) \/ insert_after_size(t)
  \/ insert_before_load(t) \/ insert_before_invalidate(t)
  \/ insert_before_store(t) \/ insert_before_cas(t) \/ insert_before_fix_load(t)
  \/ insert_before_restore(t) \/ insert_before_fix_cas(t) \/ insert_before_head(t) \/ insert_before_size(t)
  \/ remove_load(t) \/ remove_cas(t) \/ remove_size(t) \/ remove_head(t) \/ remove_tail(t)
  \/ remove_prev_load(t) \/ remove_prev_cas(t) \/ remove_next_load(t)
  \/ remove_next_cas(t) \/ remove_finalize(t)
  \/ pop_front_load(t) \/ pop_back_load(t)
  \/ call_find(t) \/ find_head_load(t) \/ find_loop(t) \/ find_recover(t)

Next == \E t \in Threads : Step(t)

Spec == Init /\ [][Next]_vars

(* ---------------- pushes only ---------------- *)
(* The threads issue MaxOps push_front and push_back calls between them,   *)
(* and nothing else.  No node is removed and fewer than MAX_RETRIES calls   *)
(* compete, so the restore and invalidate steps have no behaviour here.    *)
PushStep(t) ==
  \/ call_push_front(t) \/ call_push_back(t)
  \/ push_front_load(t) \/ push_front_cas(t) \/ push_front_fix_load(t)
  \/ push_front_fix_cas(t) \/ push_front_tail(t) \/ push_front_size(t)
  \/ push_back_load(t) \/ push_back_cas(t) \/ push_back_fix_load(t)
  \/ push_back_fix_cas(t) \/ push_back_head(t) \/ push_back_size(t)

PushNext == \E t \in Threads : PushStep(t)

PushSpec == Init /\ [][PushNext]_vars

(* ---------------- a single caller ---------------- *)
(* One thread issues any number of calls, one after the other.  It may     *)
(* hand any slot it does not hold in the list to an insertion (also one it *)
(* got back from a remove), and name any slot as anchor or remove target.  *)
SeqNSlots == 3
SeqSlots == 0..(SeqNSlots - 1)
SeqCanCall(t) == th[t].pc = "idle"

(* what a caller can observe of a quiescent list *)
Snapshot ==
  [ forward |-> Forward, reverse |-> Reverse,
    next_chain |-> NextChain, prev_chain |-> PrevChain,
    head |-> m_head, tail |-> m_tail, size |-> size ]

InsertKinds == { "push_front", "push_back", "insert_after", "insert_before" }

(* the call undoes the call before it: it is remove(x) right after an      *)
(* insertion of x that returned true                                       *)
Undoes(kind, item) ==
  /\ kind = "remove" /\ hist # << >>
  /\ hist[1].kind \in InsertKinds /\ hist[1].item = item
  /\ item \in inserted

(* hist holds the running (or last) call only, with the list as it was     *)
(* when the call started and, for a call that undoes the one before it,    *)
(* as it was when that one started                                         *)
SeqLog(t, kind, anchor, item) ==
  hist' = << [ thread |-> t, kind |-> kind, anchor |-> anchor, item |-> item,
               pre |-> Snapshot, undo |-> Undoes(kind, item),
               prior |-> IF Undoes(kind, item) THEN hist[1].pre ELSE Snapshot ] >>

seq_call_push_front(t) ==
  /\ SeqCanCall(t)
  /\ \E s \in SeqSlots \ inserted :
       /\ CallInsert(t, "push_front", nullptr, s, "push_front_load")
       /\ SeqLog(t, "push_front", nullptr, s)

seq_call_push_back(t) ==
  /\ SeqCanCall(t)
  /\ \E s \in SeqSlots \ inserted :
       /\ CallInsert(t, "push_back", nullptr, s, "push_back_load")
       /\ SeqLog(t, "push_back", nullptr, s)

seq_call_insert_after(t) ==
  /\ SeqCanCall(t)
  /\ \E s \in SeqSlots \ inserted : \E a \in SeqSlots \ { s } :
       /\ CallInsert(t, "insert_after", a, s, "insert_after_is_null")
       /\ SeqLog(t, "insert_after", a, s)

seq_call_insert_before(t) ==
  /\ SeqCanCall(t)
  /\ \E s \in SeqSlots \ inserted : \E a \in SeqSlots \ { s } :
       /\ CallInsert(t, "insert_before", a, s, "insert_before_load")
       /\ SeqLog(t, "insert_before", a, s)

seq_call_remove(t) ==
  /\ SeqCanCall(t)
  /\ \E s \in SeqSlots : CallRemove(t, s) /\ SeqLog(t, "remove", nullptr, s)

seq_call_pop_front(t) ==
  /\ SeqCanCall(t)
  /\ CallPop(t, "pop_front", "pop_front_load")
  /\ SeqLog(t, "pop_front", nullptr, nullptr)

seq_call_pop_back(t) ==
  /\ SeqCanCall(t)
  /\ CallPop(t, "pop_back", "pop_back_load")
  /\ SeqLog(t, "pop_back", nullptr, nullptr)

(* a single caller never meets a tombstone and never finds a neighbour     *)
(* changed under it, so insert_after_invalidate and the two restore steps  *)
(* have no behaviour here                                                  *)
SeqStep(t) ==
  \/ seq_call_push_front(t) \/ seq_call_push_back(t)
  \/ seq_call_insert_after(t) \/ seq_call_insert_before(t)
  \/ seq_call_remove(t) \/ seq_call_pop_front(t) \/ seq_call_pop_back(t)
  \/ push_front_load(t) \/ push_front_cas(t) \/ push_front_fix_load(t)
  \/ push_front_fix_cas(t) \/ push_front_restore(t) \/ push_front_invalidate(t)
  \/ push_front_tail(t) \/ push_front_size(t)
  \/ push_back_load(t) \/ push_back_cas(t) \/ push_back_fix_load(t)
  \/ push_back_fix_cas(t) \/ push_back_restore(t) \/ push_back_invalidate(t)
  \/ push_back_head(t) \/ push_back_size(t)
  \/ insert_after_is_null(t) \/ insert_after_load(t)
  \/ insert_after_store(t) \/ insert_after_cas(t) \/ insert_after_fix_load(t)
  \/ insert_after_fix_cas(t) \/ insert_after_tail(t) \/ insert_after_size(t)
  \/ insert_before_load(t) \/ insert_before_invalidate(t)
  \/ insert_before_store(t) \/ insert_before_cas(t) \/ insert_before_fix_load(t)
  \/ insert_before_fix_cas(t) \/ insert_before_head(t) \/ insert_before_size(t)
  \/ remove_load(t) \/ remove_cas(t) \/ remove_size(t) \/ remove_head(t) \/ remove_tail(t)
  \/ remove_prev_load(t) \/ remove_prev_cas(t) \/ remove_next_load(t)
  \/ remove_next_cas(t) \/ remove_finalize(t)
  \/ pop_front_load(t) \/ pop_back_load(t)

SeqInit ==
  /\ m_links = InitLinks(0)
  /\ m_head = NULL_PTR
  /\ m_tail = NULL_PTR
  /\ m_size = 0
  /\ th = [ t \in Threads |-> Idle ]
  /\ used = {}
  /\ inserted = {}
  /\ removed = {}
  /\ hist = << >>
  /\ init_len = 0

SeqNext == SeqStep(1)

SeqSpec == SeqInit /\ [][SeqNext]_vars

(* ---------------- a single caller on fresh slots ---------------- *)
(* One thread issues any number of calls, one after the other, starting    *)
(* from a list built by push_back.  Every insertion gets a slot that was   *)
(* never linked before; anchors and remove targets are slots that were     *)
(* linked at some time.                                                    *)
SoloSlots == 4
SoloCanInsert(t) == th[t].pc = "idle" /\ Fresh # {} /\ NextFresh < SoloSlots

solo_call_push_front(t) ==
  /\ SoloCanInsert(t)
  /\ CallInsert(t, "push_front", nullptr, NextFresh, "push_front_load")
  /\ UNCHANGED hist

solo_call_push_back(t) ==
  /\ SoloCanInsert(t)
  /\ CallInsert(t, "push_back", nullptr, NextFresh, "push_back_load")
  /\ UNCHANGED hist

solo_call_insert_after(t) ==
  /\ SoloCanInsert(t)
  /\ \E a \in Known : CallInsert(t, "insert_after", a, NextFresh, "insert_after_is_null")
  /\ UNCHANGED hist

solo_call_insert_before(t) ==
  /\ SoloCanInsert(t)
  /\ \E a \in Known : CallInsert(t, "insert_before", a, NextFresh, "insert_before_load")
  /\ UNCHANGED hist

solo_call_remove(t) ==
  /\ th[t].pc = "idle"
  /\ \E s \in Known : CallRemove(t, s)
  /\ UNCHANGED hist

solo_call_pop_front(t) ==
  /\ th[t].pc = "idle"
  /\ CallPop(t, "pop_front", "pop_front_load")
  /\ UNCHANGED hist

solo_call_pop_back(t) ==
  /\ th[t].pc = "idle"
  /\ CallPop(t, "pop_back", "pop_back_load")
  /\ UNCHANGED hist

(* a single caller on fresh slots never finds a neighbour removed or       *)
(* changed under it, so the restore steps and the invalidations that       *)
(* follow them have no behaviour here                                      *)
SoloStep(t) ==
  \/ solo_call_push_front(t) \/ solo_call_push_back(t)
  \/ solo_call_insert_after(t) \/ solo_call_insert_before(t)
  \/ solo_call_remove(t) \/ solo_call_pop_front(t) \/ solo_call_pop_back(t)
  \/ push_front_load(t) \/ push_front_cas(t) \/ push_front_fix_load(t)
  \/ push_front_fix_cas(t) \/ push_front_tail(t) \/ push_front_size(t)
  \/ push_back_load(t) \/ push_back_cas(t) \/ push_back_fix_load(t)
  \/ push_back_fix_cas(t) \/ push_back_head(t) \/ push_back_size(t)
  \/ insert_after_is_null(t) \/ insert_after_load(t)
  \/ insert_after_store(t) \/ insert_after_cas(t) \/ insert_after_fix_load(t)
  \/ insert_after_fix_cas(t) \/ insert_after_tail(t) \/ insert_after_size(t)
  \/ insert_before_load(t) \/ insert_before_invalidate(t)
  \/ insert_before_store(t) \/ insert_before_cas(t) \/ insert_before_fix_load(t)
  \/ insert_before_fix_cas(t) \/ insert_before_head(t) \/ insert_before_size(t)
  \/ remove_load(t) \/ remove_cas(t) \/ remove_size(t) \/ remove_head(t) \/ remove_tail(t)
  \/ remove_prev_load(t) \/ remove_prev_cas(t) \/ remove_next_load(t)
  \/ remove_next_cas(t) \/ remove_finalize(t)
  \/ pop_front_load(t) \/ pop_back_load(t)

SoloNext == SoloStep(1)

SoloSpec == Init /\ [][SoloNext]_vars

(* ---------------- an inserter racing with a remover ---------------- *)
(* Thread 1 issues one insertion on a fresh slot while thread 2 issues up  *)
(* to RaceOps calls, one after the other: removals of elements that were   *)
(* linked at some time, and finds that look for an element it removed.     *)
RaceOps == 3
Inserter == 1
Remover == 2
CallsOf(t) == Cardinality({ i \in 1..Len(hist) : hist[i].thread = t })
RaceCanInsert(t) == t = Inserter /\ th[t].pc = "idle" /\ CallsOf(t) = 0 /\ Fresh # {}
RaceCanRemove(t) == t = Remover /\ th[t].pc = "idle" /\ CallsOf(t) < RaceOps

race_call_push_front(t) ==
  /\ RaceCanInsert(t)
  /\ CallInsert(t, "push_front", nullptr, NextFresh, "push_front_load")
  /\ Log(t, "push_front", nullptr, NextFresh)

race_call_push_back(t) ==
  /\ RaceCanInsert(t)
  /\ CallInsert(t, "push_back", nullptr, NextFresh, "push_back_load")
  /\ Log(t, "push_back", nullptr, NextFresh)

race_call_insert_after(t) ==
  /\ RaceCanInsert(t)
  /\ \E a \in Known :
       /\ CallInsert(t, "insert_after", a, NextFresh, "insert_after_is_null")
       /\ Log(t, "insert_after", a, NextFresh)

race_call_insert_before(t) ==
  /\ RaceCanInsert(t)
  /\ \E a \in Known :
       /\ CallInsert(t, "insert_before", a, NextFresh, "insert_before_load")
       /\ Log(t, "insert_before", a, NextFresh)

race_call_remove(t) ==
  /\ RaceCanRemove(t)
  /\ \E s \in Known : CallRemove(t, s) /\ Log(t, "remove", nullptr, s)

race_call_pop_front(t) ==
  /\ RaceCanRemove(t)
  /\ CallPop(t, "pop_front", "pop_front_load")
  /\ Log(t, "pop_front", nullptr, nullptr)

race_call_pop_back(t) ==
  /\ RaceCanRemove(t)
  /\ CallPop(t, "pop_back", "pop_back_load")
  /\ Log(t, "pop_back", nullptr, nullptr)

race_call_find(t) ==
  /\ RaceCanRemove(t)
  /\ \E p \in removed :
       /\ th' = [ th EXCEPT ![t] = [ Idle EXCEPT !.pc = "find_head_load", !.op = "find",
                                                !.anchor = p, !.gone = removed ] ]
       /\ Log(t, "find", p, nullptr)
  /\ UNCHANGED << m_links, m_head, m_tail, m_size, used, inserted, removed, init_len >>

RaceStep(t) ==
  \/ race_call_push_front(t) \/ race_call_push_back(t)
  \/ race_call_insert_after(t) \/ race_call_insert_before(t)
  \/ race_call_remove(t) \/ race_call_pop_front(t) \/ race_call_pop_back(t)
  \/ push_front_load(t) \/ push_front_cas(t) \/ push_front_fix_load(t)
  \/ push_front_fix_cas(t) \/ push_front_restore(t) \/ push_front_invalidate(t)
  \/ push_front_tail(t) \/ push_front_size(t)
  \/ push_back_load(t) \/ push_back_cas(t) \/ push_back_fix_load(t)
  \/ push_back_fix_cas(t) \/ push_back_restore(t) \/ push_back_invalidate(t)
  \/ push_back_head(t) \/ push_back_size(t)
  \/ insert_after_is_null(t) \/ insert_after_load(t) \/ insert_after_invalidate(t)
  \/ insert_after_store(t) \/ insert_after_cas(t) \/ insert_after_fix_load(t)
  \/ insert_after_restore(t) \/ insert_after_fix_cas(t) \/ insert_after_tail(t) \/ insert_after_size(t)
  \/ insert_before_load(t) \/ insert_before_invalidate(t)
  \/ insert_before_store(t) \/ insert_before_cas(t) \/ insert_before_fix_load(t)
  \/ insert_before_restore(t) \/ insert_before_fix_cas(t) \/ insert_before_head(t) \/ insert_before_size(t)
  \/ remove_load(t) \/ remove_cas(t) \/ remove_size(t) \/ remove_head(t) \/ remove_tail(t)
  \/ remove_prev_load(t) \/ remove_prev_cas(t) \/ remove_next_load(t)
  \/ remove_next_cas(t) \/ remove_finalize(t)
  \/ pop_front_load(t) \/ pop_back_load(t)
  \/ race_call_find(t) \/ find_head_load(t) \/ find_loop(t) \/ find_recover(t)

RaceNext == RaceStep(Inserter) \/ RaceStep(Remover)

RaceSpec == Init /\ [][RaceNext]_vars

(* ---------------- one call against a remover ---------------- *)
(* Thread 1 issues a single insertion or find while thread 2 issues up to  *)
(* HaltOps removals. Nothing obliges a thread to take its next step, so    *)
(* either thread may stand still for ever at any point of its call.        *)
HaltOps == 1
HaltCanInsert(t) == t = Inserter /\ th[t].pc = "idle" /\ CallsOf(t) = 0 /\ Fresh # {}
HaltCanFind(t) == t = Inserter /\ th[t].pc = "idle" /\ CallsOf(t) = 0
HaltCanRemove(t) == t = Remover /\ th[t].pc = "idle" /\ CallsOf(t) < HaltOps

halt_call_push_front(t) ==
  /\ HaltCanInsert(t)
  /\ CallInsert(t, "push_front", nullptr, NextFresh, "push_front_load")
  /\ Log(t, "push_front", nullptr, NextFresh)

halt_call_push_back(t) ==
  /\ HaltCanInsert(t)
  /\ CallInsert(t, "push_back", nullptr, NextFresh, "push_back_load")
  /\ Log(t, "push_back", nullptr, NextFresh)

halt_call_insert_after(t) ==
  /\ HaltCanInsert(t)
  /\ \E a \in Known :
       /\ CallInsert(t, "insert_after", a, NextFresh, "insert_after_is_null")
       /\ Log(t, "insert_after", a, NextFresh)

halt_call_insert_before(t) ==
  /\ HaltCanInsert(t)
  /\ \E a \in Known :
       /\ CallInsert(t, "insert_before", a, NextFresh, "insert_before_load")
       /\ Log(t, "insert_before", a, NextFresh)

halt_call_find(t) ==
  /\ HaltCanFind(t)
  /\ \E p \in Known \cup { nullptr } :
       /\ th' = [ th EXCEPT ![t] = [ Idle EXCEPT !.pc = "find_head_load", !.op = "find",
                                                !.anchor = p, !.gone = removed ] ]
       /\ Log(t, "find", p, nullptr)
  /\ UNCHANGED << m_links, m_head, m_tail, m_size, used, inserted, removed, init_len >>

halt_call_remove(t) ==
  /\ HaltCanRemove(t)
  /\ \E s \in Known : CallRemove(t, s) /\ Log(t, "remove", nullptr, s)

halt_call_pop_front(t) ==
  /\ HaltCanRemove(t)
  /\ CallPop(t, "pop_front", "pop_front_load")
  /\ Log(t, "pop_front", nullptr, nullptr)

halt_call_pop_back(t) ==
  /\ HaltCanRemove(t)
  /\ CallPop(t, "pop_back", "pop_back_load")
  /\ Log(t, "pop_back", nullptr, nullptr)

HaltStep(t) ==
  \/ halt_call_push_front(t) \/ halt_call_push_back(t)
  \/ halt_call_insert_after(t) \/ halt_call_insert_before(t) \/ halt_call_find(t)
  \/ halt_call_remove(t) \/ halt_call_pop_front(t) \/ halt_call_pop_back(t)
  \/ push_front_load(t) \/ push_front_cas(t) \/ push_front_fix_load(t)
  \/ push_front_fix_cas(t) \/ push_front_restore(t) \/ push_front_invalidate(t)
  \/ push_front_tail(t) \/ push_front_size(t)
  \/ push_back_load(t) \/ push_back_cas(t) \/ push_back_fix_load(t)
  \/ push_back_fix_cas(t) \/ push_back_restore(t) \/ push_back_invalidate(t)
  \/ push_back_head(t) \/ push_back_size(t)
  \/ insert_after_is_null(t) \/ insert_after_load(t) \/ insert_after_invalidate(t)
  \/ insert_after_store(t) \/ insert_after_cas(t) \/ insert_after_fix_load(t)
  \/ insert_after_restore(t) \/ insert_after_fix_cas(t) \/ insert_after_tail(t) \/ insert_after_size(t)
  \/ insert_before_load(t) \/ insert_before_invalidate(t)
  \/ insert_before_store(t) \/ insert_before_cas(t) \/ insert_before_fix_load(t)
  \/ insert_before_restore(t) \/ insert_before_fix_cas(t) \/ insert_before_head(t) \/ insert_before_size(t)
  \/ remove_load(t) \/ remove_cas(t) \/ remove_size(t) \/ remove_head(t) \/ remove_tail(t)
  \/ remove_prev_load(t) \/ remove_prev_cas(t) \/ remove_next_load(t)
  \/ remove_next_cas(t) \/ remove_finalize(t)
  \/ pop_front_load(t) \/ pop_back_load(t)
  \/ find_head_load(t) \/ find_loop(t) \/ find_recover(t)

HaltNext == HaltStep(Inserter) \/ HaltStep(Remover)

HaltSpec == Init /\ [][HaltNext]_vars

(* ---------------- traversals next to a remover ---------------- *)
(* Thread 1 walks the list once, forwards or backwards, one atomic load a  *)
(* step, while thread 2 issues up to IterOps removals.                     *)
IterOps == 2
Walker == 1

(* List_iterator::to_node *)
List_iterator_to_node_unmarked(link) == IF link = NULL_PTR THEN nullptr ELSE link

List_iterator_to_node(link) ==
  IF link = NULL_PTR \/ link = DELETING_MARK THEN nullptr ELSE link

(* a walk is followed for at most MaxSteps operator calls *)
MaxSteps == NSlots + 1

WalkCanCall(t) == t = Walker /\ th[t].pc = "idle" /\ CallsOf(t) = 0
IterCanRemove(t) == t = Remover /\ th[t].pc = "idle" /\ CallsOf(t) < IterOps

(* for (it = begin(); it != end(); ++it) { use the element at it } *)
call_forward(t) ==
  /\ WalkCanCall(t)
  /\ th' = [ th EXCEPT ![t] = [ Idle EXCEPT !.pc = "begin_load", !.op = "forward" ] ]
  /\ Log(t, "forward", nullptr, nullptr)
  /\ UNCHANGED << m_links, m_head, m_tail, m_size, used, inserted, removed, init_len >>

(* for (it = rbegin(); it != rend(); ++it) { use the element at it } *)
call_reverse(t) ==
  /\ WalkCanCall(t)
  /\ th' = [ th EXCEPT ![t] = [ Idle EXCEPT !.pc = "rbegin_load", !.op = "reverse" ] ]
  /\ Log(t, "reverse", nullptr, nullptr)
  /\ UNCHANGED << m_links, m_head, m_tail, m_size, used, inserted, removed, init_len >>

iter_call_remove(t) ==
  /\ IterCanRemove(t)
  /\ \E s \in Known : CallRemove(t, s) /\ Log(t, "remove", nullptr, s)

iter_call_pop_front(t) ==
  /\ IterCanRemove(t)
  /\ CallPop(t, "pop_front", "pop_front_load")
  /\ Log(t, "pop_front", nullptr, nullptr)

iter_call_pop_back(t) ==
  /\ IterCanRemove(t)
  /\ CallPop(t, "pop_back", "pop_back_load")
  /\ Log(t, "pop_back", nullptr, nullptr)

(* the loop ends, or Iterator_invalidated leaves it *)
ReturnWalk(t) ==
  /\ th' = [ th EXCEPT ![t] = Idle ]
  /\ UNCHANGED Ghost

(* begin(): m_head.load *)
begin_load(t) ==
  /\ th[t].pc = "begin_load"
  /\ th' = IF m_head # NULL_PTR
           THEN [ th EXCEPT ![t].m_current = to_node(m_head), ![t].m_prev = nullptr,
                            ![t].pc = "forward_test" ]
           ELSE Goto(t, "begin_end_load")
  /\ UNCHANGED << m_links, m_head, m_tail, m_size, Ghost >>

(* begin() of an empty list returns end(): m_tail.load *)
begin_end_load(t) ==
  /\ th[t].pc = "begin_end_load"
  /\ th' = [ th EXCEPT ![t].m_current = nullptr,
                       ![t].m_prev = (IF m_tail # NULL_PTR THEN to_node(m_tail) ELSE nullptr),
                       ![t].pc = "forward_test" ]
  /\ UNCHANGED << m_links, m_head, m_tail, m_size, Ghost >>

(* it != end() compares m_current with end()'s, which is null; the body *)
(* then dereferences m_current                                          *)
forward_test(t) ==
  /\ th[t].pc = "forward_test"
  /\ th[t].steps < MaxSteps
  /\ IF th[t].m_current = nullptr
     THEN ReturnWalk(t)
     ELSE /\ th' = Goto(t, IF th[t].m_current \in Slots THEN "inc_load" ELSE "bad_deref")
          /\ UNCHANGED Ghost
  /\ UNCHANGED << m_links, m_head, m_tail, m_size >>

(* operator++ up to the drift test: m_current->m_links.load *)
inc_load(t) ==
  LET raw_links == m_links[th[t].m_current]
      current_links == unpack_links(raw_links)
      next == List_iterator_to_node(current_links.next)
  IN /\ th[t].pc = "inc_load"
     /\ th' = IF raw_links = NULL_LINK
              THEN [ th EXCEPT ![t].m_prev = th[t].m_current, ![t].m_current = nullptr,
                               ![t].steps = @ + 1, ![t].pc = "forward_test" ]
              ELSE IF List_iterator_to_node(current_links.prev) # th[t].m_prev
              THEN [ th EXCEPT ![t].raw_links = raw_links, ![t].next = next,
                               ![t].retries = 0, ![t].pc = "inc_repair" ]
              ELSE [ th EXCEPT ![t].m_prev = th[t].m_current, ![t].m_current = next,
                               ![t].steps = @ + 1, ![t].pc = "forward_test" ]
     /\ UNCHANGED << m_links, m_head, m_tail, m_size, Ghost >>

(* operator++ that raises Iterator_invalidated after any repair pass *)
inc_repair_strict(t) ==
  LET current_links == unpack_links(th[t].raw_links)
      drift == th[t].m_current # nullptr
                 /\ List_iterator_to_node(current_links.prev) # th[t].m_prev
      c == List_iterator_to_node(current_links.next)
  IN /\ th[t].pc = "inc_repair"
     /\ IF drift /\ th[t].retries < MAX_RETRIES
        THEN /\ th' = IF c = nullptr
                      THEN [ th EXCEPT ![t].m_current = c, ![t].retries = @ + 1 ]
                      ELSE IF c \notin Slots
                      THEN Goto(t, "bad_deref")
                      ELSE IF m_links[c] = NULL_LINK
                      THEN [ th EXCEPT ![t].m_prev = c, ![t].m_current = nullptr,
                                       ![t].steps = @ + 1, ![t].pc = "forward_test" ]
                      ELSE [ th EXCEPT ![t].m_current = c, ![t].retries = @ + 1,
                                       ![t].raw_links = m_links[c],
                                       ![t].m_prev = List_iterator_to_node(
                                                       unpack_links(m_links[c]).prev) ]
             /\ UNCHANGED Ghost
        ELSE IF (IF drift THEN th[t].retries + 1 ELSE th[t].retries) >= 1
        THEN ReturnWalk(t)
        ELSE /\ th' = [ th EXCEPT ![t].m_prev = th[t].m_current,
                                  ![t].m_current = th[t].next,
                                  ![t].steps = @ + 1, ![t].pc = "forward_test" ]
             /\ UNCHANGED Ghost
     /\ UNCHANGED << m_links, m_head, m_tail, m_size >>

(* one pass of the drift-repair loop of operator++, or the code after it *)
inc_repair(t) ==
  LET current_links == unpack_links(th[t].raw_links)
      drift == th[t].m_current # nullptr
                 /\ List_iterator_to_node(current_links.prev) # th[t].m_prev
      c == List_iterator_to_node(current_links.next)
  IN /\ th[t].pc = "inc_repair"
     /\ IF drift /\ th[t].retries < MAX_RETRIES
        THEN /\ th' = IF c = nullptr
                      THEN [ th EXCEPT ![t].m_current = c, ![t].retries = @ + 1 ]
                      ELSE IF c \notin Slots
                      THEN Goto(t, "bad_deref")
                      ELSE IF m_links[c] = NULL_LINK
                      THEN [ th EXCEPT ![t].m_prev = c, ![t].m_current = nullptr,
                                       ![t].steps = @ + 1, ![t].pc = "forward_test" ]
                      ELSE [ th EXCEPT ![t].m_current = c, ![t].retries = @ + 1,
                                       ![t].raw_links = m_links[c],
                                       ![t].m_prev = List_iterator_to_node(
                                                       unpack_links(m_links[c]).prev) ]
             /\ UNCHANGED Ghost
        ELSE IF (IF drift THEN th[t].retries + 1 ELSE th[t].retries) >= MAX_RETRIES
        THEN ReturnWalk(t)
        ELSE /\ th' = [ th EXCEPT ![t].m_prev = th[t].m_current,
                                  ![t].m_current = th[t].next,
                                  ![t].steps = @ + 1, ![t].pc = "forward_test" ]
             /\ UNCHANGED Ghost
     /\ UNCHANGED << m_links, m_head, m_tail, m_size >>

(* rbegin() is reverse_iterator(end()): m_tail.load *)
rbegin_load(t) ==
  /\ th[t].pc = "rbegin_load"
  /\ th' = [ th EXCEPT ![t].m_current = nullptr,
                       ![t].m_prev = (IF m_tail # NULL_PTR THEN to_node(m_tail) ELSE nullptr),
                       ![t].pc = "reverse_test" ]
  /\ UNCHANGED << m_links, m_head, m_tail, m_size, Ghost >>

(* it != rend(): rend() is reverse_iterator(begin()), which loads m_head;  *)
(* the bases are compared by m_current. The body starts with *it, which    *)
(* decrements a copy of the base.                                           *)
reverse_test(t) ==
  /\ th[t].pc = "reverse_test"
  /\ th[t].steps < MaxSteps
  /\ IF th[t].m_current = (IF m_head # NULL_PTR THEN to_node(m_head) ELSE nullptr)
     THEN ReturnWalk(t)
     ELSE /\ th' = [ th EXCEPT ![t].base = << th[t].m_current, th[t].m_prev >>,
                               ![t].phase = "deref", ![t].pc = "dec_load" ]
          /\ UNCHANGED Ghost
  /\ UNCHANGED << m_links, m_head, m_tail, m_size >>

(* operator-- returns with the iterator (current, prev): the copy made by  *)
(* *it is dereferenced and ++it decrements the base; the base's own        *)
(* decrement completes one step of the loop                                *)
DecReturn(t, current, prev) ==
  IF th[t].phase = "deref"
  THEN IF current = nullptr
       THEN [ th EXCEPT ![t].m_current = current, ![t].m_prev = prev,
                        ![t].pc = "null_deref" ]
       ELSE [ th EXCEPT ![t].m_current = th[t].base[1], ![t].m_prev = th[t].base[2],
                        ![t].phase = "step", ![t].pc = "dec_load" ]
  ELSE [ th EXCEPT ![t].m_current = current, ![t].m_prev = prev, ![t].phase = "none",
                   ![t].steps = @ + 1, ![t].pc = "reverse_test" ]

(* operator-- up to the tombstone loop: m_prev->m_links.load *)
dec_load(t) ==
  LET raw_links == m_links[th[t].m_prev]
  IN /\ th[t].pc = "dec_load"
     /\ th' = IF th[t].m_prev = nullptr
              THEN DecReturn(t, th[t].m_current, th[t].m_prev)
              ELSE IF th[t].m_prev \notin Slots
              THEN Goto(t, "bad_deref")
              ELSE IF raw_links = NULL_LINK
              THEN DecReturn(t, th[t].m_current, nullptr)
              ELSE [ th EXCEPT ![t].raw_links = raw_links, ![t].retries = 0,
                               ![t].pc = "dec_skip" ]
     /\ UNCHANGED << m_links, m_head, m_tail, m_size, Ghost >>

(* one pass of the loop of operator-- over tombstoned predecessors, or the *)
(* code after it                                                           *)
dec_skip(t) ==
  LET prev_links == unpack_links(th[t].raw_links)
      marked == is_deleting(prev_links) /\ th[t].m_prev # nullptr
      p == List_iterator_to_node(prev_links.prev)
  IN /\ th[t].pc = "dec_skip"
     /\ IF marked /\ th[t].retries < MAX_RETRIES
        THEN /\ th' = IF p = nullptr
                      THEN DecReturn(t, th[t].m_current, p)
                      ELSE IF p \notin Slots
                      THEN Goto(t, "bad_deref")
                      ELSE IF m_links[p] = NULL_LINK
                      THEN DecReturn(t, th[t].m_current, nullptr)
                      ELSE [ th EXCEPT ![t].m_prev = p, ![t].retries = @ + 1,
                                       ![t].raw_links = m_links[p] ]
             /\ UNCHANGED Ghost
        ELSE IF (IF marked THEN th[t].retries + 1 ELSE th[t].retries) >= MAX_RETRIES
        THEN ReturnWalk(t)
        ELSE /\ th' = IF p = th[t].m_prev
                      THEN DecReturn(t, th[t].m_current, nullptr)
                      ELSE DecReturn(t, th[t].m_prev, p)
             /\ UNCHANGED Ghost
     /\ UNCHANGED << m_links, m_head, m_tail, m_size >>

IterStep(t) ==
  \/ call_forward(t) \/ call_reverse(t)
  \/ iter_call_remove(t) \/ iter_call_pop_front(t) \/ iter_call_pop_back(t)
  \/ begin_load(t) \/ begin_end_load(t) \/ forward_test(t) \/ inc_load(t) \/ inc_repair(t)
  \/ rbegin_load(t) \/ reverse_test(t) \/ dec_load(t) \/ dec_skip(t)
  \/ remove_load(t) \/ remove_cas(t) \/ remove_size(t) \/ remove_head(t) \/ remove_tail(t)
  \/ remove_prev_load(t) \/ remove_prev_cas(t) \/ remove_next_load(t)
  \/ remove_next_cas(t) \/ remove_finalize(t)
  \/ pop_front_load(t) \/ pop_back_load(t)

IterNext == IterStep(Walker) \/ IterStep(Remover)

IterSpec == Init /\ [][IterNext]_vars

(* ---------------- a single caller, every call logged ---------------- *)
(* One thread starts from the empty list of List_test::SetUp and issues up *)
(* to TestOps calls, one after the other.  Insertions get the slots in     *)
(* order, as the tests take m_buffer[i]; anchors, remove targets and the   *)
(* element a find looks for are slots that were linked at some time.       *)
TestOps == 4

TestCall(t) ==
  /\ th[t].pc = "idle" /\ Len(hist) < TestOps
  /\ \/ /\ Fresh # {}
        /\ CallInsert(t, "push_front", nullptr, NextFresh, "push_front_load")
        /\ Log(t, "push_front", nullptr, NextFresh)
     \/ /\ Fresh # {}
        /\ CallInsert(t, "push_back", nullptr, NextFresh, "push_back_load")
        /\ Log(t, "push_back", nullptr, NextFresh)
     \/ /\ Fresh # {}
        /\ \E a \in Known :
             /\ CallInsert(t, "insert_after", a, NextFresh, "insert_after_is_null")
             /\ Log(t, "insert_after", a, NextFresh)
     \/ /\ Fresh # {}
        /\ \E a \in Known :
             /\ CallInsert(t, "insert_before", a, NextFresh, "insert_before_load")
             /\ Log(t, "insert_before", a, NextFresh)
     \/ \E s \in Known : CallRemove(t, s) /\ Log(t, "remove", nullptr, s)
     \/ CallPop(t, "pop_front", "pop_front_load") /\ Log(t, "pop_front", nullptr, nullptr)
     \/ CallPop(t, "pop_back", "pop_back_load") /\ Log(t, "pop_back", nullptr, nullptr)
     \/ /\ \E p \in Known \cup { nullptr } :
             /\ th' = [ th EXCEPT ![t] = [ Idle EXCEPT !.pc = "find_head_load",
                                                      !.op = "find", !.anchor = p, !.gone = removed ] ]
             /\ Log(t, "find", p, nullptr)
        /\ UNCHANGED << m_links, m_head, m_tail, m_size, used, inserted, removed, init_len >>

(* a single caller on fresh slots never finds a neighbour removed or       *)
(* changed under it: the restore steps, the invalidations that follow them *)
(* and find's recovery have no behaviour here                              *)
TestStep(t) ==
  \/ TestCall(t)
  \/ push_front_load(t) \/ push_front_cas(t) \/ push_front_fix_load(t)
  \/ push_front_fix_cas(t) \/ push_front_tail(t) \/ push_front_size(t)
  \/ push_back_load(t) \/ push_back_cas(t) \/ push_back_fix_load(t)
  \/ push_back_fix_cas(t) \/ push_back_head(t) \/ push_back_size(t)
  \/ insert_after_is_null(t) \/ insert_after_load(t)
  \/ insert_after_store(t) \/ insert_after_cas(t) \/ insert_after_fix_load(t)
  \/ insert_after_fix_cas(t) \/ insert_after_tail(t) \/ insert_after_size(t)
  \/ insert_before_load(t) \/ insert_before_invalidate(t)
  \/ insert_before_store(t) \/ insert_before_cas(t) \/ insert_before_fix_load(t)
  \/ insert_before_fix_cas(t) \/ insert_before_head(t) \/ insert_before_size(t)
  \/ remove_load(t) \/ remove_cas(t) \/ remove_size(t) \/ remove_head(t) \/ remove_tail(t)
  \/ remove_prev_load(t) \/ remove_prev_cas(t) \/ remove_next_load(t)
  \/ remove_next_cas(t) \/ remove_finalize(t)
  \/ pop_front_load(t) \/ pop_back_load(t)
  \/ find_head_load(t) \/ find_loop(t)

TestNext == TestStep(1)

TestSpec == SeqInit /\ [][TestNext]_vars

(* ---------------- properties ---------------- *)
Count(q, x) == Cardinality({ i \in 1..Len(q) : q[i] = x })
TraversalsAgree ==
  Forward.status = "ok" /\ Reverse.status = "ok" /\ Forward.seq = Rev(Reverse.seq)
Kinds == { hist[i].kind : i \in 1..Len(hist) }
Pushed == { hist[i].item : i \in 1..Len(hist) }
InitialNodes == { s \in Slots : s < init_len }

(* C1: in every quiescent state the links are bidirectional: a live node   *)
(* N with N.next = M # NULL_PTR has M.prev = N, and a live node N with     *)
(* N.prev = P # NULL_PTR has P.next = N.                                   *)
C1_LinksBidirectional ==
  Quiescent =>
    \A n \in Live :
      /\ next_of(n) # NULL_PTR =>
           (to_node(next_of(n)) # nullptr /\ prev_of(next_of(n)) = n)
      /\ prev_of(n) # NULL_PTR =>
           (to_node(prev_of(n)) # nullptr /\ next_of(prev_of(n)) = n)

(* the two calls of the run are remove(R) and insert_before(S, X) by two   *)
(* threads, S the successor of R in the initial list, and they overlapped  *)
RemoveInsertRace(R) ==
  /\ Len(hist) = 2
  /\ hist[1].thread # hist[2].thread /\ hist[2].busy # {}
  /\ R + 1 < init_len
  /\ \E i \in 1..2 :
       /\ hist[i].kind = "remove" /\ hist[i].item = R
       /\ hist[3 - i].kind = "insert_before" /\ hist[3 - i].anchor = R + 1

(* C2: when remove(R) races with insert_before(S, X) on R's successor S,   *)
(* then after both returned neither S.prev nor the predecessor's next      *)
(* names R, and the forward traversal is the reverse traversal read        *)
(* backwards.                                                              *)
C2_RemoveInsertBeforeRace ==
  \A R \in Slots :
    (Quiescent /\ RemoveInsertRace(R)) =>
      /\ prev_of(R + 1) # R
      /\ R > 0 => next_of(R - 1) # R
      /\ TraversalsAgree

(* C3: in every quiescent state the forward traversal visits the nodes the *)
(* reverse traversal visits, in exactly reversed order.                    *)
C3_ForwardIsReverseReversed == Quiescent => TraversalsAgree

(* C4: after any two mutating calls that two threads ran concurrently from *)
(* a consistent list, the quiescent list has no cycle in the next or the   *)
(* prev chain, no linked node that is unreachable from head, and no node   *)
(* reachable along only one of the two chains.                             *)
C4_PairLeavesListConsistent ==
  (Quiescent /\ Len(hist) = 2 /\ hist[1].thread # hist[2].thread /\ hist[2].busy # {}) =>
    /\ ~ NextCycle /\ ~ PrevCycle
    /\ inserted \subseteq Live
    /\ Range(NextChain) = Range(PrevChain)

(* C5: in every quiescent state a node whose word is NULL_LINK is named    *)
(* neither by head, nor by tail, nor by the next or prev of a live node.   *)
C5_NullLinkNodeUnreferenced ==
  Quiescent =>
    \A s \in Slots :
      m_links[s] = NULL_LINK =>
        /\ m_head # s /\ m_tail # s
        /\ \A n \in Live : next_of(n) # s /\ prev_of(n) # s

(* C6: a node that was inserted successfully and not removed never has a   *)
(* link word equal to NULL_LINK, whatever its version counters went        *)
(* through.                                                                *)
C6_LiveWordNeverNullLink == \A s \in inserted : m_links[s] # NULL_LINK

(* C7: after the calls have returned, every element whose insertion        *)
(* returned true and which was not removed appears exactly once in the     *)
(* forward traversal.                                                      *)
C7_InsertedExactlyOnce ==
  Quiescent => (Forward.status = "ok" /\ \A s \in inserted : Count(Forward.seq, s) = 1)

(* C8: in every quiescent state the length of the forward traversal, the   *)
(* length of the reverse traversal and size() are equal.                   *)
C8_LengthsEqualSize ==
  Quiescent =>
    /\ Forward.status = "ok" /\ Reverse.status = "ok"
    /\ Len(Forward.seq) = size /\ Len(Reverse.seq) = size

(* C9: after concurrent push_front calls only, on fresh slots, from an     *)
(* empty list and with fewer threads than MAX_RETRIES, every pushed        *)
(* element is in the forward traversal exactly once, size() is the number  *)
(* of pushes, and both traversals have that length.                        *)
C9_ConcurrentPushFront ==
  (Quiescent /\ init_len = 0 /\ Kinds \subseteq { "push_front" } /\ NThreads < MAX_RETRIES) =>
    /\ Forward.status = "ok" /\ Reverse.status = "ok"
    /\ \A s \in Pushed : Count(Forward.seq, s) = 1
    /\ size = Len(hist)
    /\ Len(Forward.seq) = Len(hist) /\ Len(Reverse.seq) = Len(hist)

(* C10: after concurrent push_front and push_back calls only, on fresh     *)
(* slots, the forward traversal yields every element of the initial list   *)
(* and every pushed element exactly once.                                  *)
C10_ConcurrentPushFrontAndBack ==
  (Quiescent /\ Kinds \subseteq { "push_front", "push_back" }) =>
    /\ Forward.status = "ok"
    /\ \A s \in InitialNodes \cup Pushed : Count(Forward.seq, s) = 1
    /\ Len(Forward.seq) = init_len + Len(hist)

(* C16: in every quiescent state, head = NULL_PTR implies tail = NULL_PTR  *)
(* and that no inserted element is left in the list, and tail = NULL_PTR   *)
(* implies head = NULL_PTR.                                                *)
C16_EmptyHeadIffEmptyTail ==
  Quiescent =>
    /\ m_head = NULL_PTR => (m_tail = NULL_PTR /\ inserted = {})
    /\ m_tail = NULL_PTR => (m_head = NULL_PTR /\ inserted = {})

(* C17: in every quiescent state with a non-empty list, the node named by  *)
(* head has prev = NULL_PTR and is the only live node with prev = NULL_PTR,*)
(* and the node named by tail has next = NULL_PTR and is the only live     *)
(* node with next = NULL_PTR.                                              *)
C17_OnlyEndsHaveNullLinks ==
  (Quiescent /\ inserted # {}) =>
    /\ to_node(m_head) # nullptr /\ prev_of(m_head) = NULL_PTR
    /\ to_node(m_tail) # nullptr /\ next_of(m_tail) = NULL_PTR
    /\ \A n \in inserted :
         /\ prev_of(n) = NULL_PTR => n = m_head
         /\ next_of(n) = NULL_PTR => n = m_tail

(* C15: in a single-threaded run, once remove(item) has returned the item, *)
(* a later remove(item) of the slot, not handed to an insertion in         *)
(* between, returns nothing at its first read of the node and leaves head, *)
(* tail, size and every link word unchanged.                               *)
C15_SecondRemoveReturnsNothing ==
  [][ (th[1].pc = "remove_load" /\ th[1].op = "remove" /\ th[1].item \in removed) =>
        /\ th'[1].pc = "idle"
        /\ removed' = removed /\ inserted' = inserted
        /\ m_links' = m_links /\ m_head' = m_head /\ m_tail' = m_tail /\ m_size' = m_size ]_vars

C15_Witness ==
  /\ th[1].pc = "remove_load" /\ th[1].op = "remove"
  /\ th[1].item \in removed /\ m_links[th[1].item] = NULL_LINK
  /\ inserted # {}

(* a step of thread t that wins the commit CAS of remove *)
Commits(t) == th[t].pc = "remove_cas" /\ th'[t].pc \notin { "remove_cas", "remove_load" }
(* thread u has committed the removal of element s and has not returned *)
Committed(u, s) ==
  /\ th[u].item = s
  /\ th[u].pc \in { "remove_size", "remove_head", "remove_tail", "remove_prev_load", "remove_prev_cas",
                    "remove_next_load", "remove_next_cas", "remove_finalize" }

(* C11: among all remove, pop_front and pop_back calls that target an      *)
(* element that was inserted once, at most one wins the commit and returns *)
(* the element, and size is decremented once on its account: no call       *)
(* commits the removal of an element that another call has committed or    *)
(* returned.                                                               *)
C11_RemovedAtMostOnce ==
  [][ \A t \in Threads :
        Commits(t) =>
          /\ th[t].item \notin removed
          /\ \A u \in Threads \ { t } : ~ Committed(u, th[t].item) ]_vars

(* a step of thread t with which an insertion returns false *)
ReturnsFalse(t) ==
  /\ th'[t].pc = "idle"
  /\ th[t].pc \in { "push_front_load", "push_front_invalidate",
                    "push_back_load", "push_back_invalidate",
                    "insert_after_is_null", "insert_after_invalidate",
                    "insert_before_invalidate" }

(* C12: when an insertion returns false, the new node's word is NULL_LINK  *)
(* and the new node is named neither by head, nor by tail, nor by the next *)
(* or prev field of any other node.                                        *)
C12_FailedInsertLeavesNodeUnlinked ==
  [][ \A t \in Threads :
        ReturnsFalse(t) =>
          /\ m_links'[th[t].item] = NULL_LINK
          /\ m_head' # th[t].item /\ m_tail' # th[t].item
          /\ \A s \in Slots \ { th[t].item } :
               /\ unpack_links(m_links'[s]).next # th[t].item
               /\ unpack_links(m_links'[s]).prev # th[t].item ]_vars

(* the list holds exactly the elements of q, in this order: head, tail and *)
(* every next and prev field say so, and every other slot is unlinked      *)
ListIs(q) ==
  /\ m_head = (IF q = << >> THEN NULL_PTR ELSE q[1])
  /\ m_tail = (IF q = << >> THEN NULL_PTR ELSE q[Len(q)])
  /\ \A i \in 1..Len(q) :
       /\ m_links[q[i]] # NULL_LINK
       /\ next_of(q[i]) = (IF i = Len(q) THEN NULL_PTR ELSE q[i + 1])
       /\ prev_of(q[i]) = (IF i = 1 THEN NULL_PTR ELSE q[i - 1])
  /\ \A s \in Slots \ Range(q) : m_links[s] = NULL_LINK
  /\ m_size = Len(q)

InitSeq == [ i \in 1..init_len |-> i - 1 ]
Without(q, s) == SelectSeq(q, LAMBDA x : x # s)

(* the list left by the remover's calls alone, run in the order issued *)
RECURSIVE RemovalsAlone(_, _)
RemovalsAlone(i, q) ==
  IF i > Len(hist) THEN q
  ELSE IF hist[i].thread # Remover THEN RemovalsAlone(i + 1, q)
  ELSE IF hist[i].kind = "remove" THEN RemovalsAlone(i + 1, Without(q, hist[i].item))
  ELSE IF q = << >> THEN RemovalsAlone(i + 1, q)
  ELSE IF hist[i].kind = "pop_front" THEN RemovalsAlone(i + 1, Tail(q))
  ELSE RemovalsAlone(i + 1, SubSeq(q, 1, Len(q) - 1))

(* the inserter's call has returned false *)
InsertFailed ==
  \E i \in 1..Len(hist) :
    /\ hist[i].thread = Inserter /\ th[Inserter].pc = "idle"
    /\ hist[i].item \notin inserted \cup removed

(* C13: an operation that fails leaves no partial effect.  For an          *)
(* insertion that returned false while another thread ran removals: once   *)
(* all calls have returned, head, tail, size and the next and prev fields  *)
(* of every node are what the removals alone would have left.              *)
C13_FailedInsertHasNoEffect ==
  (Quiescent /\ InsertFailed) => ListIs(RemovalsAlone(1, InitSeq))

(* the anchor's word, as thread t is about to read it, is NULL_LINK or a tombstone *)
AnchorDead(t) ==
  \/ m_links[th[t].anchor] = NULL_LINK
  \/ is_deleting(unpack_links(m_links[th[t].anchor]))

(* thread t's insertion has read a usable anchor word and is linking x *)
Linking(t) ==
  th[t].pc \in { "insert_after_store", "insert_after_cas", "insert_after_fix_load",
                 "insert_after_fix_cas", "insert_after_restore", "insert_after_restore_fail",
                 "insert_after_tail", "insert_after_size",
                 "insert_before_store", "insert_before_cas", "insert_before_fix_load",
                 "insert_before_fix_cas", "insert_before_restore", "insert_before_restore_fail",
                 "insert_before_head", "insert_before_size" }

(* C14: insert_after and insert_before that read an anchor word equal to   *)
(* NULL_LINK or a tombstone return false, change neither head, tail, size  *)
(* nor the word of any node but x, and leave x's word NULL_LINK; and an    *)
(* insertion links x only next to an anchor whose word, when last read,    *)
(* was neither NULL_LINK nor a tombstone.                                  *)
C14_DeadAnchorIsRefused ==
  [][ \A t \in Threads :
        /\ Linking(t) =>
             (th[t].node_links # NULL_LINK /\ ~ is_deleting(unpack_links(th[t].node_links)))
        /\ ( /\ th[t].pc # th'[t].pc
             /\ \/ th[t].pc = "insert_after_is_null" /\ m_links[th[t].anchor] = NULL_LINK
                \/ th[t].pc \in { "insert_after_load", "insert_before_load" } /\ AnchorDead(t) )
           => /\ th'[t].pc \in { "idle", "insert_after_invalidate", "insert_before_invalidate" }
              /\ m_links' = m_links /\ m_head' = m_head /\ m_tail' = m_tail /\ m_size' = m_size
              /\ inserted' = inserted
              /\ th'[t].pc = "idle" => m_links[th[t].item] = NULL_LINK
        /\ ( /\ th[t].pc # th'[t].pc
             /\ th[t].pc \in { "insert_after_invalidate", "insert_before_invalidate" } )
           => /\ th'[t].pc = "idle"
              /\ m_links' = [ m_links EXCEPT ![th[t].item] = NULL_LINK ]
              /\ m_head' = m_head /\ m_tail' = m_tail /\ m_size' = m_size
              /\ inserted' = inserted ]_vars

C14_Witness ==
  \E t \in Threads :
    /\ th[t].pc \in { "insert_after_invalidate", "insert_before_invalidate" }
    /\ th[t].retries = 1
    /\ is_deleting(unpack_links(th[t].node_links))

(* ---------------- bounded steps ---------------- *)
(* A bound on the atomic steps a call still has to take, computed from the  *)
(* caller's own position and loop counters alone. A load/CAS pair of a loop *)
(* that counts c up to MAX_RETRIES is worth 2 * (MAX_RETRIES - c) steps     *)
(* above what follows the loop.                                             *)
LoopLeft(base, c, at_cas) == base + 2 * (MAX_RETRIES - c) + (IF at_cas THEN 2 ELSE 1)

(* push_front and push_back: a retry loop, then a fix loop entered once,   *)
(* the CAS of the other end and the size update                            *)
PushLeft(l, kind) ==
  LET R == MAX_RETRIES
      at(name) == l.pc = kind \o name
  IN IF at("_load") THEN LoopLeft(2 * R + 4, l.retries, FALSE)
     ELSE IF at("_cas") THEN LoopLeft(2 * R + 4, l.retries, TRUE)
     ELSE IF at("_fix_load") THEN LoopLeft(3, l.inner_retries, FALSE)
     ELSE IF at("_fix_cas") THEN LoopLeft(3, l.inner_retries, TRUE)
     ELSE IF at("_size") \/ at("_invalidate") THEN 1
     ELSE 2

(* insert_after and insert_before: the fix loop is inside the retry loop, *)
(* which a restore re-enters                                              *)
InsertLeft(l, kind) ==
  LET R == MAX_RETRIES
      C == 2 * R + 6
      at(name) == l.pc = kind \o name
      round == (R - l.retries) * C + 2
  IN IF at("_is_null") THEN R * C + 3
     ELSE IF at("_load") THEN round
     ELSE IF at("_invalidate") \/ at("_size") THEN 1
     ELSE IF at("_store") THEN round + 2 * R + 5
     ELSE IF at("_cas") THEN round + 2 * R + 4
     ELSE IF at("_fix_load") THEN round + LoopLeft(2, l.inner_retries, FALSE)
     ELSE IF at("_fix_cas") THEN round + LoopLeft(2, l.inner_retries, TRUE)
     ELSE IF at("_restore_fail") THEN round + 2
     ELSE round + 1

(* remove: the commit loop, the size update, the head and tail CAS, the   *)
(* two fix loops, the final store                                         *)
RemoveLeft(l) ==
  LET R == MAX_RETRIES
  IN IF l.pc = "remove_load" THEN LoopLeft(4 * R + 5, l.retries, FALSE)
     ELSE IF l.pc = "remove_cas" THEN LoopLeft(4 * R + 5, l.retries, TRUE)
     ELSE IF l.pc = "remove_size" THEN 4 * R + 6
     ELSE IF l.pc = "remove_head" THEN 4 * R + 5
     ELSE IF l.pc = "remove_tail" THEN 4 * R + 4
     ELSE IF l.pc = "remove_prev_load" THEN LoopLeft(2 * R + 2, l.inner_retries, FALSE)
     ELSE IF l.pc = "remove_prev_cas" THEN LoopLeft(2 * R + 2, l.inner_retries, TRUE)
     ELSE IF l.pc = "remove_next_load" THEN LoopLeft(1, l.inner_retries, FALSE)
     ELSE IF l.pc = "remove_next_cas" THEN LoopLeft(1, l.inner_retries, TRUE)
     ELSE 1

(* pop_front and pop_back: up to MAX_RETRIES calls of remove *)
PopLeft(l) ==
  LET R == MAX_RETRIES
      round == (R - l.pop_retries) * (6 * R + 8)
  IN IF l.pc \in { "pop_front_load", "pop_back_load" } THEN round + 1
     ELSE round + RemoveLeft(l)

(* find: every pass of the loop counts once, a recovery twice *)
FindLeft(l) ==
  IF l.pc = "find_head_load" THEN 2 * (MAX_RETRIES + 2) + 1
  ELSE IF l.pc = "find_loop" THEN 2 * (MAX_RETRIES + 2 - l.retries)
  ELSE 2 * (MAX_RETRIES + 2 - l.retries) + 1

StepsLeft(l) ==
  IF l.op \in { "push_front", "push_back" } THEN PushLeft(l, l.op)
  ELSE IF l.op \in { "insert_after", "insert_before" } THEN InsertLeft(l, l.op)
  ELSE IF l.op = "remove" THEN RemoveLeft(l)
  ELSE IF l.op \in { "pop_front", "pop_back" } THEN PopLeft(l)
  ELSE IF l.op = "find" THEN FindLeft(l)
  ELSE 0

(* C18: every call returns after a bounded number of its own atomic steps,  *)
(* whatever the other threads do and wherever they stand still: every step  *)
(* is a step of some thread's call, and a step of a call that does not      *)
(* return brings the call strictly closer to a bound computed from its own  *)
(* loop counters, which never goes below zero.                              *)
C18_BoundedOwnSteps ==
  [][ /\ th' # th
      /\ \A t \in Threads :
           /\ StepsLeft(th'[t]) >= 0
           /\ (th'[t] # th[t] /\ th[t].pc # "idle" /\ th'[t].pc # "idle")
                => StepsLeft(th'[t]) < StepsLeft(th[t]) ]_vars

(* a call retries after losing a CAS while the other thread stands inside *)
(* its own call                                                           *)
C18_Witness ==
  \E t \in Threads : \E u \in Threads \ { t } :
    /\ th[t].pc \in { "push_front_load", "push_back_load", "remove_load",
                      "insert_after_load", "insert_before_load", "find_loop" }
    /\ th[t].retries >= 1
    /\ th[u].pc # "idle"

(* C19: a forward traversal that runs next to removals ends: it completes  *)
(* at most as many ++ as the list had elements when the run started, each  *)
(* ++ makes at most MAX_RETRIES passes of its repair loop, and no step     *)
(* uses the NULL_PTR or DELETING sentinel as a slot index.                 *)
C19_ForwardTraversalEnds ==
  \A t \in Threads :
    th[t].op = "forward" =>
      /\ th[t].steps <= init_len
      /\ th[t].retries <= MAX_RETRIES
      /\ th[t].pc # "bad_deref"
      /\ th[t].m_current \in Slots \cup { nullptr }

(* the traversal stands on a node that a removal tombstoned, or repairs a *)
(* drift that a removal caused                                            *)
C19_Witness ==
  \E t \in Threads :
    /\ th[t].op = "forward"
    /\ \/ /\ th[t].pc = "inc_load"
          /\ is_deleting(unpack_links(m_links[th[t].m_current]))
       \/ /\ th[t].pc = "inc_repair"
          /\ th[t].retries >= 1

(* C20: a reverse traversal that runs next to removals ends after at most  *)
(* as many steps as the list had elements when the run started and never   *)
(* dereferences an iterator whose current is null.                         *)
C20_ReverseTraversalEnds ==
  \A t \in Threads :
    th[t].op = "reverse" =>
      /\ th[t].pc # "null_deref"
      /\ th[t].steps <= init_len


(* ---------------- what a sequential run should leave ---------------- *)
(* q with x placed right after (or right before) a; q itself when a is not in q *)
InsertAt(q, a, x, after) ==
  IF \E i \in 1..Len(q) : q[i] = a
  THEN LET i == CHOOSE j \in 1..Len(q) : q[j] = a
           k == IF after THEN i ELSE i - 1
       IN SubSeq(q, 1, k) \o << x >> \o SubSeq(q, k + 1, Len(q))
  ELSE q

(* the sequence the call c should make of the sequence q *)
Apply(c, q) ==
  IF c.kind = "push_front" THEN << c.item >> \o q
  ELSE IF c.kind = "push_back" THEN Append(q, c.item)
  ELSE IF c.kind = "insert_after" THEN InsertAt(q, c.anchor, c.item, TRUE)
  ELSE IF c.kind = "insert_before" THEN InsertAt(q, c.anchor, c.item, FALSE)
  ELSE IF c.kind = "remove" THEN Without(q, c.item)
  ELSE IF c.kind = "pop_front" /\ q # << >> THEN Tail(q)
  ELSE IF c.kind = "pop_back" /\ q # << >> THEN SubSeq(q, 1, Len(q) - 1)
  ELSE q

(* the sequence the first n logged calls should leave, one after the other *)
RECURSIVE Expected(_)
Expected(n) == IF n = 0 THEN InitSeq ELSE Apply(hist[n], Expected(n - 1))

Items == [ i \in 1..Len(hist) |-> hist[i].item ]

(* C21: in a single-threaded run from the empty list, push_back of         *)
(* e1..en yields the forward traversal [e1..en] and the reverse traversal  *)
(* [en..e1], and push_front of e1..en yields the forward traversal         *)
(* [en..e1].                                                               *)
C21_PushOrder ==
  (Quiescent /\ init_len = 0) =>
    /\ Kinds \subseteq { "push_back" } =>
         /\ Forward = [ seq |-> Items, status |-> "ok" ]
         /\ Reverse = [ seq |-> Rev(Items), status |-> "ok" ]
    /\ Kinds \subseteq { "push_front" } =>
         Forward = [ seq |-> Rev(Items), status |-> "ok" ]

C21_Witness ==
  /\ Quiescent /\ init_len = 0 /\ Len(hist) >= 3
  /\ Kinds = { "push_back" }
  /\ Forward.seq = Items /\ Reverse.seq = Rev(Items)

(* the call in the window and the list it started on *)
LastCall == hist[Len(hist)]
(* a consistent list: the prev chain from tail is the reversal of the next  *)
(* chain from head, and size is their length                               *)
Consistent(snap) ==
  /\ snap.prev_chain = Rev(snap.next_chain)
  /\ snap.size = Len(snap.next_chain)

(* C22: a single caller's insert_after(a, x) or insert_before(a, x) on a    *)
(* consistent list that holds a and not x returns true, and afterwards the  *)
(* forward traversal is the one before the call with x put right after      *)
(* (right before) a, and the reverse traversal is its reversal.             *)
C22_InsertAtAnchor ==
  (Quiescent /\ hist # << >> /\ LastCall.kind \in { "insert_after", "insert_before" }) =>
    LET c == LastCall
        q == c.pre.next_chain
    IN (Consistent(c.pre) /\ c.anchor \in Range(q) /\ c.item \notin Range(q)) =>
         /\ c.item \in inserted
         /\ Forward = [ seq |-> InsertAt(q, c.anchor, c.item, c.kind = "insert_after"),
                        status |-> "ok" ]
         /\ Reverse = [ seq |-> Rev(Forward.seq), status |-> "ok" ]

(* C23: when a single caller inserts an element x that is not in the list   *)
(* and the insertion returns true, the remove(x) that follows returns x and *)
(* leaves the forward traversal, the reverse traversal, head, tail and size *)
(* as they were before the insertion.                                       *)
C23_InsertThenRemoveRestores ==
  (Quiescent /\ hist # << >> /\ LastCall.undo
     /\ LastCall.item \notin Range(LastCall.prior.next_chain)) =>
    /\ LastCall.item \in removed
    /\ Forward = LastCall.prior.forward
    /\ Reverse = LastCall.prior.reverse
    /\ m_head = LastCall.prior.head
    /\ m_tail = LastCall.prior.tail
    /\ size = LastCall.prior.size

RemoveKinds == { "remove", "pop_front", "pop_back" }

(* steps of thread t with which a call returns, and what it returns *)
Returns(t) == th[t].pc # "idle" /\ th'[t].pc = "idle"
ReturnsTrue(t) == Returns(t) /\ th[t].op \in InsertKinds /\ ~ ReturnsFalse(t)
ReturnsElement(t) == Returns(t) /\ th[t].pc = "remove_finalize"
ReturnsNothing(t) == Returns(t) /\ th[t].op \in RemoveKinds /\ th[t].pc # "remove_finalize"

(* thread t is past the commit CAS of the remove it runs *)
PastCommit(l) ==
  l.pc \in { "remove_size", "remove_head", "remove_tail", "remove_prev_load", "remove_prev_cas",
             "remove_next_load", "remove_next_cas", "remove_finalize" }

(* no call of the run started while another was running *)
Sequential == \A i \in 1..Len(hist) : hist[i].busy = {}

(* C24: a step changes size by +1 when it makes an insertion return true,   *)
(* by -1 when it is the fetch_sub that follows a won commit CAS, and not    *)
(* at all otherwise; a removal reaches that fetch_sub exactly by winning    *)
(* the commit, a call that has committed a removal returns the element and  *)
(* a remove or pop that returns nothing has not committed, so every call    *)
(* that returns true adds exactly 1, every call that returns an element     *)
(* takes exactly 1 and every failing call leaves size alone.  When no two   *)
(* calls overlap, size is the number of linked elements after every call.   *)
C24_SizeAccounting ==
  [][ /\ \A t \in Threads : th'[t] # th[t] =>
           /\ m_size' - m_size = (IF ReturnsTrue(t) THEN 1
                                  ELSE IF th[t].pc = "remove_size" THEN 0 - 1 ELSE 0)
           /\ Commits(t) <=> th'[t].pc = "remove_size"
           /\ Commits(t) <=> (~ PastCommit(th[t]) /\ PastCommit(th'[t]))
           /\ PastCommit(th[t]) => (PastCommit(th'[t]) \/ ReturnsElement(t))
           /\ ReturnsNothing(t) => ~ PastCommit(th[t])
      /\ (Quiescent /\ Sequential)' =>
           (size = Len(NextChain) /\ size = Cardinality(inserted))'
    ]_vars

C24_Witness ==
  /\ Quiescent /\ Len(hist) = 2 /\ hist[2].busy # {}
  /\ removed # {} /\ \E s \in inserted : s >= init_len
  /\ m_size = init_len

(* the last call was a find that started on a quiescent list and returned *)
FindRanAlone ==
  /\ Quiescent /\ hist # << >>
  /\ LastCall.kind = "find" /\ LastCall.busy = {}

(* C25: a find that runs alone on a list of any length returns the element  *)
(* that satisfies the predicate when a linked element does, and nothing     *)
(* when none does.                                                          *)
C25_FindOnQuiescentList ==
  FindRanAlone =>
    th[LastCall.thread].found =
      (IF LastCall.anchor \in Live THEN LastCall.anchor ELSE nullptr)

(* C26: the element a find returns had a link word that was neither a       *)
(* tombstone nor NULL_LINK when find loaded it, and it is not an element    *)
(* whose removal had returned, hence was committed, when the find started.  *)
C26_FindSkipsRemoved ==
  [][ \A t \in Threads :
        (th[t].op = "find" /\ Returns(t) /\ th'[t].found # nullptr) =>
          LET s == th'[t].found
          IN /\ m_links[s] # NULL_LINK
             /\ ~ is_deleting(unpack_links(m_links[s]))
             /\ s \notin th[t].gone ]_vars

(* C27: on a consistent list that is not empty a single caller's pop_front  *)
(* returns the element at the head and pop_back the element at the tail,    *)
(* and the element is no longer in the list; so neither returns nothing     *)
(* unless the list is empty.                                                *)
C27_PopReturnsEnd ==
  (Quiescent /\ hist # << >> /\ LastCall.kind \in { "pop_front", "pop_back" }) =>
    LET q == LastCall.pre.next_chain
        e == IF LastCall.kind = "pop_front" THEN q[1] ELSE q[Len(q)]
    IN (Consistent(LastCall.pre) /\ q # << >>) =>
         /\ e \in removed
         /\ Forward = [ seq |-> Without(q, e), status |-> "ok" ]
         /\ size = Len(q) - 1

(* what a caller sees of a list that holds no element *)
EmptyListFacts ==
  /\ List_iterator_eq(begin, end)
  /\ List_iterator_eq(rbegin, rend)
  /\ size = 0

(* the running call started on a list that held no element *)
CalledOnEmpty == hist # << >> /\ Expected(Len(hist) - 1) = << >>

(* C28: on a list that holds no element begin() equals end(), rbegin()      *)
(* equals rend() and size() is 0, and a pop_front, pop_back or find called  *)
(* on it returns nothing.                                                   *)
C28_EmptyList ==
  [][ /\ (Quiescent /\ inserted = {}) => EmptyListFacts
      /\ (Quiescent /\ inserted = {})' => EmptyListFacts'
      /\ \A t \in Threads :
           (Returns(t) /\ CalledOnEmpty /\ th[t].op \in { "pop_front", "pop_back", "find" }) =>
             IF th[t].op = "find" THEN th'[t].found = nullptr ELSE ReturnsNothing(t)
    ]_vars

C28_Witness ==
  /\ Quiescent /\ inserted = {} /\ removed # {}
  /\ Len(hist) = TestOps
  /\ \A i \in { Len(hist) - 1, Len(hist) } :
       hist[i].kind \in { "pop_front", "pop_back", "find" } /\ Expected(i - 1) = << >>
  /\ hist[Len(hist)].kind = "find" /\ hist[Len(hist)].anchor \in removed
  /\ EmptyListFacts

(* the list holds element x alone *)
Singleton(x) ==
  /\ m_head = x /\ m_tail = x
  /\ next_of(x) = NULL_PTR /\ prev_of(x) = NULL_PTR
  /\ Forward = [ seq |-> << x >>, status |-> "ok" ]
  /\ Reverse = [ seq |-> << x >>, status |-> "ok" ]

(* C29: after a push_front or push_back of x onto a list that holds no      *)
(* element, head and tail both name x, x's next and prev are NULL_PTR, and  *)
(* the forward and the reverse traversal each yield x and nothing else.     *)
C29_SinglePush ==
  (Quiescent /\ CalledOnEmpty /\ LastCall.kind \in { "push_front", "push_back" }) =>
    Singleton(LastCall.item)

C29_Witness ==
  /\ Quiescent /\ CalledOnEmpty /\ Len(hist) >= 3
  /\ LastCall.kind = "push_front"
  /\ Singleton(LastCall.item)

(* the last call was a remove, pop_front or pop_back that started on a list *)
(* holding x alone and returned x                                           *)
RemovedTheOnly(x) ==
  /\ Quiescent /\ hist # << >>
  /\ Expected(Len(hist) - 1) = << x >>
  /\ \/ LastCall.kind = "remove" /\ LastCall.item = x
     \/ LastCall.kind \in { "pop_front", "pop_back" }
  /\ x \in removed

(* C30: after the only element of the list was removed by remove, pop_front *)
(* or pop_back, head and tail are NULL_PTR, the removed node's word is      *)
(* NULL_LINK and size() is 0.                                               *)
C30_RemoveTheOnly ==
  \A x \in Slots :
    RemovedTheOnly(x) =>
      /\ m_head = NULL_PTR /\ m_tail = NULL_PTR
      /\ m_links[x] = NULL_LINK
      /\ size = 0

C30_Witness ==
  \E x \in Slots :
    /\ RemovedTheOnly(x) /\ LastCall.kind = "pop_back" /\ Len(hist) = TestOps
    /\ m_head = NULL_PTR /\ m_tail = NULL_PTR /\ m_links[x] = NULL_LINK /\ size = 0

(* the word of slot s holds a tombstone *)
Tombstoned(s) == m_links[s] # NULL_LINK /\ is_deleting(unpack_links(m_links[s]))

(* C31: a step that changes a word holding a tombstone is the store of      *)
(* NULL_LINK by the thread that won the commit CAS on that node; nothing    *)
(* else writes the word, so its prev field keeps the original predecessor   *)
(* and the node does not become live again.                                 *)
C31_TombstoneOnlyFinalized ==
  [][ \A s \in Slots :
        (Tombstoned(s) /\ m_links'[s] # m_links[s]) =>
          /\ m_links'[s] = NULL_LINK
          /\ \E t \in Threads :
               /\ th[t].pc = "remove_finalize" /\ th[t].item = s
               /\ th'[t] # th[t] ]_vars

(* C32: when insert_before returns true after it saw anchor.prev = NULL_PTR *)
(* (it went through the head CAS), the new node is reachable from head      *)
(* along next; when insert_after returns true after it saw anchor.next =    *)
(* NULL_PTR (it went through the tail CAS), the new node is reachable from  *)
(* tail along prev.                                                         *)
C32_EdgeInsertReachable ==
  [][ \A t \in Threads :
        /\ (th[t].pc = "insert_before_size" /\ Returns(t)
              /\ unpack_links(th[t].node_links).prev = NULL_PTR) =>
             th[t].item \in Range(NextChain')
        /\ (th[t].pc = "insert_after_size" /\ Returns(t)
              /\ unpack_links(th[t].node_links).next = NULL_PTR) =>
             th[t].item \in Range(PrevChain') ]_vars

(* the steps with which a push wins its anchor CAS *)
HeadCas(t) == th[t].pc = "push_front_cas" /\ th'[t] # th[t] /\ m_head' # m_head
TailCas(t) == th[t].pc = "push_back_cas" /\ th'[t] # th[t] /\ m_tail' # m_tail

(* every prev field matches the next fields: the neighbours of each        *)
(* inserted node name it back, head has no predecessor, tail no successor  *)
PrevMatchesNext ==
  \A n \in inserted :
    /\ IF next_of(n) = NULL_PTR THEN m_tail = n
       ELSE to_node(next_of(n)) # nullptr /\ prev_of(next_of(n)) = n
    /\ IF prev_of(n) = NULL_PTR THEN m_head = n
       ELSE to_node(prev_of(n)) # nullptr /\ next_of(prev_of(n)) = n

(* C33: push_front calls racing on a list that is not empty are ordered by  *)
(* their head CASes: each winning head CAS puts its node right in front of  *)
(* the node that was head, and no other step changes head or the next field *)
(* of a node reachable from head, so the forward order is the later node,   *)
(* the earlier node, the old head and so on, whatever the order of the prev *)
(* fix-ups; when all calls have returned true every prev field matches.     *)
(* The same holds for push_back calls, tail and the backward order.         *)
C33_PushesOrderedByCas ==
  [][ init_len > 0 =>
        /\ Kinds' \subseteq { "push_front" } =>
             /\ \A t \in Threads : HeadCas(t) =>
                  /\ m_head' = th[t].item /\ th[t].item \notin Range(NextChain)
                  /\ unpack_links(m_links'[th[t].item]).next = m_head
             /\ (~ \E t \in Threads : HeadCas(t)) => m_head' = m_head
             /\ \A s \in Range(NextChain) : unpack_links(m_links'[s]).next = next_of(s)
        /\ Kinds' \subseteq { "push_back" } =>
             /\ \A t \in Threads : TailCas(t) =>
                  /\ m_tail' = th[t].item /\ th[t].item \notin Range(PrevChain)
                  /\ unpack_links(m_links'[th[t].item]).prev = m_tail
             /\ (~ \E t \in Threads : TailCas(t)) => m_tail' = m_tail
             /\ \A s \in Range(PrevChain) : unpack_links(m_links'[s]).prev = prev_of(s)
        /\ (Quiescent' /\ (Kinds' \subseteq { "push_front" } \/ Kinds' \subseteq { "push_back" })) =>
             /\ Pushed' \subseteq inserted'
             /\ PrevMatchesNext'
    ]_vars

C33_Witness ==
  /\ Quiescent /\ init_len > 0 /\ Len(hist) = 2 /\ hist[2].busy # {}
  /\ Kinds = { "push_front" } /\ Pushed \subseteq inserted
  /\ NextChain = << hist[1].item, hist[2].item >> \o InitSeq
  /\ PrevChain = Rev(NextChain)

(* slot s is published: head, tail or another node's word names it *)
Published(s) ==
  \/ m_head = s \/ m_tail = s
  \/ \E n \in Slots \ { s } :
       m_links[n] # NULL_LINK /\ (next_of(n) = s \/ prev_of(n) = s)

(* the word of slot s belongs to a published node that is not being removed *)
PublishedLive(s) ==
  /\ m_links[s] # NULL_LINK /\ ~ is_deleting(unpack_links(m_links[s]))
  /\ Published(s)

Bump(v) == BitAnd(v + 1, VERSION_MASK)

(* C34: a write to the word of a published live node that changes its next  *)
(* field adds 1 modulo 4 to next_version and keeps prev_version, one that   *)
(* changes its prev field adds 1 modulo 4 to prev_version and keeps         *)
(* next_version, and no write moves a version counter backwards.            *)
C34_VersionsCountWrites ==
  [][ \A s \in Slots :
        (PublishedLive(s) /\ m_links'[s] # m_links[s]) =>
          LET old == unpack_links(m_links[s])
              new == unpack_links(m_links'[s])
          IN /\ new.next # old.next =>
                  (new.next_version = Bump(old.next_version)
                     /\ new.prev_version = old.prev_version)
             /\ new.prev # old.prev =>
                  (new.prev_version = Bump(old.prev_version)
                     /\ new.next_version = old.next_version)
             /\ new.next_version \in { old.next_version, Bump(old.next_version) }
             /\ new.prev_version \in { old.prev_version, Bump(old.prev_version) } ]_vars

(* ---------------- an insertion next to a parked compare-exchange ---------------- *)
(* Thread 2 issues one remove. Thread 1 issues one insert_after or         *)
(* insert_before, and only while thread 2 sits between the load of a       *)
(* neighbour's word and the compare-exchange that expects it (lines        *)
(* 390-409 and 417-436): whatever thread 1 writes falls between the two.   *)
ParkedAtCas(t) == th[t].pc \in { "remove_prev_cas", "remove_next_cas" }
AbaCanInsert(t) ==
  /\ t = Inserter /\ th[t].pc = "idle" /\ CallsOf(t) = 0 /\ Fresh # {}
  /\ ParkedAtCas(Remover)

aba_call_insert_after(t) ==
  /\ AbaCanInsert(t)
  /\ \E a \in Known :
       /\ CallInsert(t, "insert_after", a, NextFresh, "insert_after_is_null")
       /\ Log(t, "insert_after", a, NextFresh)

aba_call_insert_before(t) ==
  /\ AbaCanInsert(t)
  /\ \E a \in Known :
       /\ CallInsert(t, "insert_before", a, NextFresh, "insert_before_load")
       /\ Log(t, "insert_before", a, NextFresh)

AbaStep(t) ==
  \/ aba_call_insert_after(t) \/ aba_call_insert_before(t) \/ halt_call_remove(t)
  \/ insert_after_is_null(t) \/ insert_after_load(t) \/ insert_after_invalidate(t)
  \/ insert_after_store(t) \/ insert_after_cas(t) \/ insert_after_fix_load(t)
  \/ insert_after_restore(t) \/ insert_after_fix_cas(t) \/ insert_after_tail(t) \/ insert_after_size(t)
  \/ insert_before_load(t) \/ insert_before_invalidate(t)
  \/ insert_before_store(t) \/ insert_before_cas(t) \/ insert_before_fix_load(t)
  \/ insert_before_restore(t) \/ insert_before_fix_cas(t) \/ insert_before_head(t) \/ insert_before_size(t)
  \/ remove_load(t) \/ remove_cas(t) \/ remove_size(t) \/ remove_head(t) \/ remove_tail(t)
  \/ remove_prev_load(t) \/ remove_prev_cas(t) \/ remove_next_load(t)
  \/ remove_next_cas(t) \/ remove_finalize(t)

AbaNext == AbaStep(Inserter) \/ AbaStep(Remover)

AbaSpec == Init /\ [][AbaNext]_vars

(* the node whose word the parked compare-exchange of thread t expects *)
CasTarget(t) ==
  IF th[t].pc = "remove_prev_cas" THEN to_node(unpack_links(th[t].node_links).prev)
                                  ELSE to_node(unpack_links(th[t].node_links).next)

(* thread u, called while t was parked, won its anchor CAS on s: it has    *)
(* read the word of the anchor's other neighbour, which only happens       *)
(* after that CAS (lines 592-615, 671-690)                                 *)
WroteSinceLoad(u, t, s) ==
  /\ u # t /\ hist # << >> /\ LastCall.thread = u /\ t \in LastCall.busy
  /\ th[u].op \in { "insert_after", "insert_before" }
  /\ th[u].anchor = s
  /\ th[u].nbr_links # NULL_LINK

(* C35: a compare-exchange on a node's word fails when, since the thread   *)
(* loaded the word it expects, a neighbour of the node was replaced and    *)
(* put back, so that the indices are the ones the thread saw. Here: the    *)
(* compare-exchange of a parked remove does not succeed once another       *)
(* thread's insertion has won its anchor CAS on the same word in between.  *)
C35_CasFailsAfterRelink ==
  [][ \A t \in Threads :
        (ParkedAtCas(t) /\ th'[t] # th[t]
           /\ m_links'[CasTarget(t)] # m_links[CasTarget(t)])
        => ~ \E u \in Threads : WroteSinceLoad(u, t, CasTarget(t)) ]_vars

(* the elements behind s in the list order that are linked and that no     *)
(* removal in progress names; IterSpec inserts nothing, so the order is    *)
(* the initial one                                                         *)
LinkedAfter(s) ==
  { x \in Range(NextChain) : x > s /\ \A u \in Threads : th[u].item # x }

(* C36: when ++ of a forward traversal loads a tombstoned word from its     *)
(* current node (next = DELETING, not yet NULL_LINK) while elements behind  *)
(* that node are linked, the iterator does not become the end iterator: the *)
(* traversal goes on to those elements.                                     *)
C36_WalkPassesTombstone ==
  [][ \A t \in Threads :
        (th[t].op = "forward" /\ th[t].pc = "inc_load" /\ th'[t] # th[t]
           /\ Tombstoned(th[t].m_current)
           /\ LinkedAfter(th[t].m_current) # {})
        => ~ (th'[t].pc = "forward_test" /\ th'[t].m_current = nullptr) ]_vars

(* the iterator of thread t has drifted: the prev field of the word it     *)
(* holds is not the predecessor it remembers (lines 187-188)               *)
Drift(t) ==
  /\ th[t].m_current # nullptr
  /\ List_iterator_to_node(unpack_links(th[t].raw_links).prev) # th[t].m_prev

(* operator++ of thread t leaves by throw Iterator_invalidated *)
Throws(t) == th[t].pc = "inc_repair" /\ th'[t] # th[t] /\ th'[t].pc = "idle"

(* operator++ called on the iterator that a traversal holds *)
IncFacts ==
  \A t \in Threads :
    th[t].op = "forward" /\ th[t].pc = "forward_test" =>
      LET it == Iter(th[t].m_current, th[t].m_prev)
      IN /\ it.m_current = nullptr => Inc(it) = it
         /\ (it.m_current # nullptr /\ m_links[it.m_current] = NULL_LINK)
              => Inc(it) = Iter(nullptr, it.m_current)
         /\ ~ Inc(it).thrown

(* C37: ++ raises Iterator_invalidated exactly when the repair loop has    *)
(* made MAX_RETRIES passes and the iterator still drifts; otherwise ++     *)
(* completes: it never uses a sentinel as a node, ++ on a null current     *)
(* changes nothing, and ++ on a current whose word is NULL_LINK sets prev  *)
(* to current and current to null.                                         *)
C37_IncErrors ==
  /\ []IncFacts
  /\ [][ \A t \in Threads :
           (th[t].op = "forward" /\ th'[t] # th[t]) =>
             /\ Throws(t) <=> (th[t].pc = "inc_repair" /\ Drift(t)
                                 /\ th[t].retries >= MAX_RETRIES)
             /\ th'[t].pc # "bad_deref"
             /\ (th[t].pc = "inc_load" /\ m_links[th[t].m_current] = NULL_LINK) =>
                  /\ th'[t].m_prev = th[t].m_current
                  /\ th'[t].m_current = nullptr
                  /\ th'[t].pc = "forward_test" ]_vars

(* ++ met a drift, ran its repair loop and completed; or ++ found the      *)
(* word of its current node to be NULL_LINK and moved to the end           *)
C37_Witness ==
  \E t \in Threads :
    /\ th[t].op = "forward" /\ th[t].pc = "forward_test" /\ th[t].steps >= 1
    /\ th[t].retries >= 1
    /\ \E u \in Threads :
         /\ th[u].op = "forward" /\ th[u].pc = "forward_test" /\ th[u].steps >= 1
         /\ th[u].m_current = nullptr /\ th[u].m_prev # nullptr
         /\ m_links[th[u].m_prev] = NULL_LINK

(* the element the call c should return from the sequence q, nullptr when  *)
(* it should return nothing                                                *)
AbstractResult(c, q) ==
  IF c.kind = "remove" THEN (IF c.item \in Range(q) THEN c.item ELSE nullptr)
  ELSE IF q = << >> THEN nullptr
  ELSE IF c.kind = "pop_front" THEN q[1]
  ELSE q[Len(q)]

(* C38: a single caller's list refines a sequence, one call at a time:     *)
(* when the list before a call is consistent and holds the sequence q (and *)
(* not the slot an insertion brings), then after the call the forward      *)
(* traversal is the sequence the call makes of q, the reverse traversal is *)
(* its reversal, size is its length, an insertion has returned true        *)
(* exactly when it changed the sequence, and a remove or pop has returned  *)
(* the element that left the sequence.                                     *)
C38_RefinesSequence ==
  (Quiescent /\ hist # << >>) =>
    LET c == LastCall
        q == c.pre.next_chain
        r == Apply(c, q)
        e == AbstractResult(c, q)
    IN (Consistent(c.pre) /\ (c.kind \in InsertKinds => c.item \notin Range(q))) =>
         /\ Forward = [ seq |-> r, status |-> "ok" ]
         /\ Reverse = [ seq |-> Rev(r), status |-> "ok" ]
         /\ size = Len(r)
         /\ c.kind \in InsertKinds => (c.item \in inserted <=> r # q)
         /\ (c.kind \in RemoveKinds /\ e # nullptr) =>
              (e \in removed /\ e \notin inserted)

(* ---------------- a reader next to a mutator ---------------- *)
(* Thread 1 runs one read-only operation: find, a forward traversal        *)
(* (begin, end, ++) or a reverse traversal (rbegin, rend, --).  Thread 2   *)
(* issues up to HaltOps insertions and removals, each of them while the    *)
(* reader is inside its operation; an insertion gets a fresh slot and an   *)
(* anchor that is linked.                                                  *)
ReaderStep(t) ==
  \/ call_forward(t) \/ call_reverse(t) \/ halt_call_find(t)
  \/ begin_load(t) \/ begin_end_load(t) \/ forward_test(t) \/ inc_load(t) \/ inc_repair(t)
  \/ rbegin_load(t) \/ reverse_test(t) \/ dec_load(t) \/ dec_skip(t)
  \/ find_head_load(t) \/ find_loop(t) \/ find_recover(t)

ReadCanMutate(t) ==
  /\ t = Remover /\ th[t].pc = "idle" /\ CallsOf(t) < HaltOps
  /\ th[Walker].pc # "idle"

read_call_push_front(t) ==
  /\ ReadCanMutate(t) /\ Fresh # {}
  /\ CallInsert(t, "push_front", nullptr, NextFresh, "push_front_load")
  /\ Log(t, "push_front", nullptr, NextFresh)

read_call_push_back(t) ==
  /\ ReadCanMutate(t) /\ Fresh # {}
  /\ CallInsert(t, "push_back", nullptr, NextFresh, "push_back_load")
  /\ Log(t, "push_back", nullptr, NextFresh)

read_call_insert_after(t) ==
  /\ ReadCanMutate(t) /\ Fresh # {}
  /\ \E a \in inserted :
       /\ CallInsert(t, "insert_after", a, NextFresh, "insert_after_is_null")
       /\ Log(t, "insert_after", a, NextFresh)

read_call_insert_before(t) ==
  /\ ReadCanMutate(t) /\ Fresh # {}
  /\ \E a \in inserted :
       /\ CallInsert(t, "insert_before", a, NextFresh, "insert_before_load")
       /\ Log(t, "insert_before", a, NextFresh)

read_call_remove(t) ==
  /\ ReadCanMutate(t)
  /\ \E s \in Known : CallRemove(t, s) /\ Log(t, "remove", nullptr, s)

read_call_pop_front(t) ==
  /\ ReadCanMutate(t)
  /\ CallPop(t, "pop_front", "pop_front_load")
  /\ Log(t, "pop_front", nullptr, nullptr)

read_call_pop_back(t) ==
  /\ ReadCanMutate(t)
  /\ CallPop(t, "pop_back", "pop_back_load")
  /\ Log(t, "pop_back", nullptr, nullptr)

(* a single mutator with linked anchors meets no tombstone and no         *)
(* neighbour changed under it, so the restore and invalidate steps have    *)
(* no behaviour here                                                       *)
MutatorStep(t) ==
  \/ read_call_push_front(t) \/ read_call_push_back(t)
  \/ read_call_insert_after(t) \/ read_call_insert_before(t)
  \/ read_call_remove(t) \/ read_call_pop_front(t) \/ read_call_pop_back(t)
  \/ push_front_load(t) \/ push_front_cas(t) \/ push_front_fix_load(t)
  \/ push_front_fix_cas(t) \/ push_front_tail(t) \/ push_front_size(t)
  \/ push_back_load(t) \/ push_back_cas(t) \/ push_back_fix_load(t)
  \/ push_back_fix_cas(t) \/ push_back_head(t) \/ push_back_size(t)
  \/ insert_after_is_null(t) \/ insert_after_load(t)
  \/ insert_after_store(t) \/ insert_after_cas(t) \/ insert_after_fix_load(t)
  \/ insert_after_fix_cas(t) \/ insert_after_tail(t) \/ insert_after_size(t)
  \/ insert_before_load(t)
  \/ insert_before_store(t) \/ insert_before_cas(t) \/ insert_before_fix_load(t)
  \/ insert_before_fix_cas(t) \/ insert_before_head(t) \/ insert_before_size(t)
  \/ remove_load(t) \/ remove_cas(t) \/ remove_size(t) \/ remove_head(t) \/ remove_tail(t)
  \/ remove_prev_load(t) \/ remove_prev_cas(t) \/ remove_next_load(t)
  \/ remove_next_cas(t) \/ remove_finalize(t)
  \/ pop_front_load(t) \/ pop_back_load(t)

ReadNext == ReaderStep(Walker) \/ MutatorStep(Remover)

ReadSpec == Init /\ [][ReadNext]_vars

ReadKinds == { "find", "forward", "reverse" }

(* thread t takes a step of a read-only operation, its call included *)
Reads(t) == th'[t] # th[t] /\ (th[t].op \in ReadKinds \/ th'[t].op \in ReadKinds)

(* the list is what the mutating calls issued so far leave when they run   *)
(* one after the other without any reader                                  *)
MutatorsOutcome ==
  /\ NextChain = Expected(Len(hist))
  /\ PrevChain = Rev(NextChain)
  /\ size = Len(NextChain)

(* C39: no step of find, of begin, end, rbegin, rend or of the iterator    *)
(* steps ++ and -- changes head, tail, size or a node's link word, and     *)
(* size() changes nothing either; so the mutating calls that overlap a     *)
(* reader leave the list they leave without it.                            *)
C39_ReadersWriteNothing ==
  /\ [](Quiescent => MutatorsOutcome)
  /\ [][ (\E t \in Threads : Reads(t)) =>
           /\ m_links' = m_links /\ m_head' = m_head /\ m_tail' = m_tail
           /\ m_size' = m_size ]_vars

(* a mutating call that started inside a read-only operation has changed   *)
(* the list and returned while the reader is still inside its operation    *)
C39_Witness ==
  /\ th[Walker].op \in ReadKinds /\ th[Walker].pc # "idle"
  /\ th[Remover].pc = "idle" /\ Len(hist) = 2
  /\ MutatorsOutcome /\ NextChain # InitSeq

====
